---------------------------- MODULE Spec2Model ----------------------------
(***************************************************************************)
(* PyModbusDevices: the raw-socket Modbus-TCP client (Client/pymbtget.py,  *)
(* Client/api_pymbtget.py) and the chemical-process server                 *)
(* (Server/modbus_chemical_process.py) with its simulation thread.         *)
(*                                                                         *)
(* Number representation.  Python floats are modelled by exact fixed-point *)
(* integers (rounding error of the binary floats is not modelled):         *)
(*   volumes and flows   in 1/VOL litre   (VOL = 11000 makes the           *)
(*                                         conversion rate exact)          *)
(*   temperatures        in 1/TEMP_UNIT degree C (tenths)                  *)
(*   pressure            in 1/PRESSURE_UNIT kPa (thousandths); the         *)
(*                       quadratic fill factor is truncated to 1/1000      *)
(* Frames are sequences of bytes 0..255.                                   *)
(*                                                                         *)
(* The two lists of 65536 elements (coils, holding_registers) are kept     *)
(* sparse: a function over the process addresses plus every other address  *)
(* that holds a non-zero value; every other address holds 0.               *)
(***************************************************************************)
EXTENDS Integers, Sequences, FiniteSets, TLC

VARIABLES
    srv,        \* the ModbusServer object: store and simulation fields
    autoThreads,\* auto_control threads started and not yet run
    ticks,      \* completed passes of the simulate_data loop (capped)
    calls,      \* connections served so far (capped)
    listener,   \* the listen loop: "accepting", "crashed" (uncaught exception)
                \* or "returned" (left after stop())
    conn,       \* the client's current connection: call, frames, result
    held        \* per commanded valve: the coil value the last pass read, and
                \* for how many consecutive passes (counted up to HELD_CAP)

vars == <<srv, autoThreads, ticks, calls, listener, conn, held>>

-----------------------------------------------------------------------------
(* Constants of Server/modbus_chemical_process.py *)

READ_COILS == 1
READ_DISCRETE_INPUTS == 2
READ_HOLDING_REGISTERS == 3
READ_INPUT_REGISTERS == 4
WRITE_SINGLE_COIL == 5
WRITE_SINGLE_REGISTER == 6

REGISTER_SIZE == 65536
MAX_REQUEST_SIZE == 1024
BYTE_SIZE == 8
BYTE_ROUND_UP == 7
REGISTER_BYTE_SIZE == 2
RESPONSE_HEADER_SIZE == 3

POWDER_INLET_ADDR == 200
LIQUID_INLET_ADDR == 201
MIXER_ADDR == 202
SAFETY_RELIEF_VALVE_ADDR == 203
OUTLET_VALVE_ADDR == 204
AUTO_CONTROL_ENABLE == 205

POWDER_TANK_LEVEL_ADDR == 230
PROPORTIONAL_POWDER_FEED_ADDR == 231
LIQUID_TANK_LEVEL_ADDR == 232
PROPORTIONAL_LIQUID_FEED_ADDR == 233
INTERMEDIATE_SLURRY_LEVEL_ADDR == 234
PROCESSED_PRODUCT_LEVEL_ADDR == 235
HEATER_ADDR == 236
MIX_TANK_PRESSURE_ADDR == 237
TANK_TEMP_LOWER_ADDR == 238
TANK_TEMP_UPPER_ADDR == 239
POWDER_MIXING_VOLUME_ADDR == 240
LIQUID_MIXING_VOLUME_ADDR == 241
PROD_FLOW_ADDR == 242
PROD_FLOW_EST_MINUTE_ADDR == 243

INLET_MAX_FLOW == 10
PROPORTIONAL_VALVE_INCREMENT == 1
ON_OFF_VALVE_INCREMENT == 20
VALVE_MIN == 0
VALVE_MAX == 100

POWDER_TANK_FILL_LIMIT == 300
LIQUID_TANK_FILL_LIMIT == 800
MAX_TANK_VOLUME == 10000
BASE_PRESSURE == 101
\* PRESSURE_INCREASE_LOW/MEDIUM/HIGH = 0.2/0.3/0.4, PRESSURE_DECREASE = 0.2: in tenths
PRESSURE_INCREASE_LOW == 2
PRESSURE_INCREASE_MEDIUM == 3
PRESSURE_INCREASE_HIGH == 4
PRESSURE_DECREASE == 2
RELEIF_PRESSURE_DECREASE == 5

MAX_HEATER_TEMP == 160
\* COOLING_RATE = 0.2, HEATING_RATE = 0.4: in tenths of a degree
COOLING_RATE == 2
HEATING_RATE == 4
AMBIENT_TEMP == 20

MIN_REACTION_TEMP == 50
MAX_REACTION_TEMP == 160
\* BASE_CONVERSION_RATE = 0.2, REACTION_TEMPERATURE_INCREASE = 0.1,
\* EXTRA_HEAT_FROM_ENHANCED_REACTION = 0.6: in tenths
BASE_CONVERSION_RATE == 2
MAX_CONVERSION_RATE == 10
REACTION_TEMPERATURE_INCREASE == 1
ENHANCED_REACTION_TEMP_THRESHOLD == 110
ENHANCED_REACTION_MULTIPLIER == 2
EXTRA_HEAT_FROM_ENHANCED_REACTION == 6

MAX_OUTLET_FLOW == 25

ERROR_REG == 9999
ERROR_COIL == 1
PRESSURE_ERROR_LIMIT == 400
POWDER_IGNITION_TEMPERATURE == 130
PRODUCT_MIX_ERROR_LEVEL == 20

\* length of upper_temp_history / lower_temp_history, cap of the outlet flow history
TEMP_HISTORY_LEN == 10
FLOW_HISTORY_LEN == 60

(* Constants of Client/pymbtget.py *)
MAX_TRANSACTION_ID == 65535
MODBUS_REQUEST_LENGTH == 6
COIL_ON == 65280
COIL_OFF == 0
RESPONSE_HEADER_LENGTH == 7
EXCEPTION_FC_BASE == 128
WRITE_SINGLE_BYTE_COUNT == 4
READ_HDR_SIZE == 3
REG_SIZE == 2
EXP_ILLEGAL_FUNCTION == 1

-----------------------------------------------------------------------------
(* Fixed-point units *)

TEMP_UNIT == 10
PRESSURE_UNIT == 1000
VOL == 100 * (MAX_REACTION_TEMP - MIN_REACTION_TEMP)

Min(a, b) == IF a < b THEN a ELSE b
Max(a, b) == IF a > b THEN a ELSE b

\* int(x) of a non-negative quantity held in 1/unit
PyInt(x, unit) == x \div unit

\* round(x) of a non-negative quantity held in 1/unit: Python rounds half to even
PyRound(x, unit) ==
    LET q == x \div unit
        r == x % unit
    IN  IF 2 * r < unit THEN q
        ELSE IF 2 * r > unit THEN q + 1
        ELSE IF q % 2 = 0 THEN q ELSE q + 1

RECURSIVE SumSeq(_)
SumSeq(seq) == IF seq = <<>> THEN 0 ELSE Head(seq) + SumSeq(Tail(seq))

-----------------------------------------------------------------------------
(* The store: self.coils and self.holding_registers *)

CoilAddrs == POWDER_INLET_ADDR .. AUTO_CONTROL_ENABLE
RegAddrs == POWDER_TANK_LEVEL_ADDR .. PROD_FLOW_EST_MINUTE_ADDR

\* list[index] of a list of REGISTER_SIZE elements; the caller checks the range
Elem(list, index) == IF index \in DOMAIN list THEN list[index] ELSE 0

\* list[index] = value
Store(list, index, value, fixed) ==
    LET dom == IF value = 0 /\ index \notin fixed
               THEN DOMAIN list \ {index}
               ELSE DOMAIN list \cup {index}
    IN  [x \in dom |-> IF x = index THEN value ELSE list[x]]


-----------------------------------------------------------------------------
(* ModbusServer.__init__ *)

InitServer ==
    [ listening |-> FALSE,
      holding_registers |->
          [a \in RegAddrs |->
              IF a \in {POWDER_TANK_LEVEL_ADDR, LIQUID_TANK_LEVEL_ADDR} THEN 900
              ELSE IF a = MIX_TANK_PRESSURE_ADDR THEN 101
              ELSE IF a \in {TANK_TEMP_LOWER_ADDR, TANK_TEMP_UPPER_ADDR} THEN 20
              ELSE 0],
      coils |-> [a \in CoilAddrs |-> 0],
      powder_inlet |-> 0,
      powder_inlet_prop |-> 0,
      liquid_inlet |-> 0,
      liquid_inlet_prop |-> 0,
      outlet_valve_position |-> 0,
      powder_tank_level |-> 900 * VOL,
      liquid_tank_level |-> 900 * VOL,
      powder_mix_tank_level |-> 0,
      liquid_mix_tank_level |-> 0,
      processed_mix_tank_level |-> 0,
      powder_inlet_flow |-> 0,
      liquid_inlet_flow |-> 0,
      product_outlet_flow |-> 0,
      product_outlet_flow_history |-> <<>>,
      temperature_upper |-> 20 * TEMP_UNIT,
      temperature_lower |-> 20 * TEMP_UNIT,
      upper_temp_history |-> [i \in 1..TEMP_HISTORY_LEN |-> 20 * TEMP_UNIT],
      lower_temp_history |-> [i \in 1..TEMP_HISTORY_LEN |-> 20 * TEMP_UNIT],
      tank_pressure |-> 101 * PRESSURE_UNIT,
      process_error |-> FALSE ]

\* ModbusServer.start: listen sets self.listening before its loop
start(s) == [s EXCEPT !.listening = TRUE]

\* ModbusServer.stop
stop(s) == [s EXCEPT !.listening = FALSE]

\* variant of while_listening that goes on accepting after stop()
while_listening_forever(s, raised) ==
    IF raised # "none" THEN "crashed" ELSE "accepting"

\* the test of the loop of listen after a pass: an exception has left the loop,
\* stop() has cleared self.listening and listen returns, or accept is called again
while_listening(s, raised) ==
    IF raised # "none" THEN "crashed"
    ELSE IF s.listening THEN "accepting"
    ELSE "returned"

SetCoil(s, a, v) == [s EXCEPT !.coils = Store(s.coils, a, v, CoilAddrs)]
SetReg(s, a, v) ==
    [s EXCEPT !.holding_registers = Store(s.holding_registers, a, v, RegAddrs)]

-----------------------------------------------------------------------------
(* The simulation: the methods simulate_data calls, in its order *)

\* variant of auto_control whose feed targets follow one threshold, 1600
auto_control_no_band(s) ==
    [s EXCEPT
        !.coils = [@ EXCEPT
            ![POWDER_INLET_ADDR] = 1,
            ![LIQUID_INLET_ADDR] = 1,
            ![MIXER_ADDR] = 1,
            ![OUTLET_VALVE_ADDR] =
                IF s.processed_mix_tank_level < 1700 * VOL THEN 0
                ELSE IF s.processed_mix_tank_level > 2000 * VOL THEN 1
                ELSE @,
            ![SAFETY_RELIEF_VALVE_ADDR] =
                IF s.tank_pressure > 200 * PRESSURE_UNIT THEN 1 ELSE 0],
        !.holding_registers = [@ EXCEPT
            ![PROPORTIONAL_POWDER_FEED_ADDR] =
                IF s.powder_mix_tank_level > 1600 * VOL THEN 0 ELSE 50,
            ![PROPORTIONAL_LIQUID_FEED_ADDR] =
                IF s.liquid_mix_tank_level > 1600 * VOL THEN 0 ELSE 50,
            ![HEATER_ADDR] =
                IF s.powder_mix_tank_level > 1000 * VOL
                   /\ s.liquid_mix_tank_level > 1000 * VOL
                THEN 40 ELSE @]]

\* variant of auto_control that commands the outlet open whatever the product level
auto_control_outlet_open(s) ==
    [s EXCEPT
        !.coils = [@ EXCEPT
            ![POWDER_INLET_ADDR] = 1,
            ![LIQUID_INLET_ADDR] = 1,
            ![MIXER_ADDR] = 1,
            ![OUTLET_VALVE_ADDR] = 1,
            ![SAFETY_RELIEF_VALVE_ADDR] =
                IF s.tank_pressure > 200 * PRESSURE_UNIT THEN 1 ELSE 0],
        !.holding_registers = [@ EXCEPT
            ![PROPORTIONAL_POWDER_FEED_ADDR] =
                IF s.powder_mix_tank_level > 1600 * VOL THEN 0
                ELSE IF s.powder_mix_tank_level < 1400 * VOL THEN 50
                ELSE @,
            ![PROPORTIONAL_LIQUID_FEED_ADDR] =
                IF s.liquid_mix_tank_level > 1600 * VOL THEN 0
                ELSE IF s.liquid_mix_tank_level < 1400 * VOL THEN 50
                ELSE @,
            ![HEATER_ADDR] =
                IF s.powder_mix_tank_level > 1000 * VOL
                   /\ s.liquid_mix_tank_level > 1000 * VOL
                THEN 40 ELSE @]]

\* Body of the auto_control thread.  It reads the levels and the pressure, which it
\* does not write, and each pair of range tests (below 1400 / above 1600, above
\* 2000 / below 1700) is exclusive, so each address gets the value of the one
\* assignment that applies.
auto_control(s) ==
    [s EXCEPT
        !.coils = [@ EXCEPT
            ![POWDER_INLET_ADDR] = 1,
            ![LIQUID_INLET_ADDR] = 1,
            ![MIXER_ADDR] = 1,
            ![OUTLET_VALVE_ADDR] =
                IF s.processed_mix_tank_level < 1700 * VOL THEN 0
                ELSE IF s.processed_mix_tank_level > 2000 * VOL THEN 1
                ELSE @,
            ![SAFETY_RELIEF_VALVE_ADDR] =
                IF s.tank_pressure > 200 * PRESSURE_UNIT THEN 1 ELSE 0],
        !.holding_registers = [@ EXCEPT
            ![PROPORTIONAL_POWDER_FEED_ADDR] =
                IF s.powder_mix_tank_level > 1600 * VOL THEN 0
                ELSE IF s.powder_mix_tank_level < 1400 * VOL THEN 50
                ELSE @,
            ![PROPORTIONAL_LIQUID_FEED_ADDR] =
                IF s.liquid_mix_tank_level > 1600 * VOL THEN 0
                ELSE IF s.liquid_mix_tank_level < 1400 * VOL THEN 50
                ELSE @,
            ![HEATER_ADDR] =
                IF s.powder_mix_tank_level > 1000 * VOL
                   /\ s.liquid_mix_tank_level > 1000 * VOL
                THEN 40 ELSE @]]

\* variant of on_off_valve that moves by half the increment and holds at 90
on_off_valve_half(coil, position) ==
    IF coil = 1 /\ position < VALVE_MAX - ON_OFF_VALVE_INCREMENT \div 2
    THEN position + ON_OFF_VALVE_INCREMENT \div 2
    ELSE IF coil = 0 /\ position > VALVE_MIN
    THEN Max(position - ON_OFF_VALVE_INCREMENT, VALVE_MIN)
    ELSE position

\* One update of an on/off valve's position from its coil
on_off_valve(coil, position) ==
    IF coil = 1 /\ position < VALVE_MAX
    THEN Min(position + ON_OFF_VALVE_INCREMENT, VALVE_MAX)
    ELSE IF coil = 0 /\ position > VALVE_MIN
    THEN Max(position - ON_OFF_VALVE_INCREMENT, VALVE_MIN)
    ELSE position

\* One update of a proportional valve's position toward its target register
proportional_valve(target, position) ==
    IF position < target
    THEN Min(position + PROPORTIONAL_VALVE_INCREMENT, target)
    ELSE IF position > target
    THEN Max(position - PROPORTIONAL_VALVE_INCREMENT, target)
    ELSE position

update_inlet_valve_positions(s) ==
    [s EXCEPT
        !.powder_inlet = on_off_valve(s.coils[POWDER_INLET_ADDR], @),
        !.powder_inlet_prop =
            proportional_valve(s.holding_registers[PROPORTIONAL_POWDER_FEED_ADDR], @),
        !.liquid_inlet = on_off_valve(s.coils[LIQUID_INLET_ADDR], @),
        !.liquid_inlet_prop =
            proportional_valve(s.holding_registers[PROPORTIONAL_LIQUID_FEED_ADDR], @)]

\* variant of inlet_flow that follows the proportional valve alone
inlet_flow_prop_only(on_off, prop) == (prop * INLET_MAX_FLOW * VOL) \div 100

\* min(on_off, prop) / 100 * INLET_MAX_FLOW, in 1/VOL litre
inlet_flow(on_off, prop) == (Min(on_off, prop) * INLET_MAX_FLOW * VOL) \div 100

\* variant of update_inlet_flows that never refills the source tanks
update_inlet_flows_no_refill(s, refill_powder, refill_liquid) ==
    LET pf == inlet_flow(s.powder_inlet, s.powder_inlet_prop)
        lf == inlet_flow(s.liquid_inlet, s.liquid_inlet_prop)
        pt == s.powder_tank_level - pf
        lt == s.liquid_tank_level - lf
    IN  [s EXCEPT
            !.powder_inlet_flow = pf,
            !.liquid_inlet_flow = lf,
            !.powder_mix_tank_level = @ + pf,
            !.liquid_mix_tank_level = @ + lf,
            !.powder_tank_level =
                pt,
            !.liquid_tank_level =
                lt]

\* refill_powder = random.randint(400, 600), drawn when the powder tank is low
\* refill_liquid = random.randint(LIQUID_TANK_FILL_LIMIT - 3, LIQUID_TANK_FILL_LIMIT),
\* drawn when the liquid tank is low
update_inlet_flows(s, refill_powder, refill_liquid) ==
    LET pf == inlet_flow(s.powder_inlet, s.powder_inlet_prop)
        lf == inlet_flow(s.liquid_inlet, s.liquid_inlet_prop)
        pt == s.powder_tank_level - pf
        lt == s.liquid_tank_level - lf
    IN  [s EXCEPT
            !.powder_inlet_flow = pf,
            !.liquid_inlet_flow = lf,
            !.powder_mix_tank_level = @ + pf,
            !.liquid_mix_tank_level = @ + lf,
            !.powder_tank_level =
                IF pt < POWDER_TANK_FILL_LIMIT * VOL THEN pt + refill_powder * VOL ELSE pt,
            !.liquid_tank_level =
                IF lt < LIQUID_TANK_FILL_LIMIT * VOL THEN refill_liquid * VOL ELSE lt]

\* variant of target_temperature that ignores the heater setting
target_temperature_ambient(heater) == AMBIENT_TEMP * TEMP_UNIT

\* heater_setting * (MAX_HEATER_TEMP - AMBIENT_TEMP) + AMBIENT_TEMP, in tenths
target_temperature(heater) ==
    (heater * (MAX_HEATER_TEMP - AMBIENT_TEMP) * TEMP_UNIT) \div 100
        + AMBIENT_TEMP * TEMP_UNIT

\* variant of update_temperature_from_heater that decides on the current
\* temperature
update_temperature_from_heater_undelayed(s) ==
    LET target == target_temperature(s.holding_registers[HEATER_ADDR])
        delayed_lower_temp == s.temperature_lower
        heating == delayed_lower_temp < target
    IN  [s EXCEPT
            !.upper_temp_history = Append(Tail(@), s.temperature_upper),
            !.lower_temp_history = Append(Tail(@), s.temperature_lower),
            !.temperature_lower =
                IF heating THEN @ + HEATING_RATE
                ELSE Max(@ - COOLING_RATE, AMBIENT_TEMP * TEMP_UNIT),
            !.temperature_upper =
                IF heating THEN @ + HEATING_RATE
                ELSE Max(@ - COOLING_RATE, AMBIENT_TEMP * TEMP_UNIT)]

\* variant of update_temperature_from_heater that cools below the ambient
\* temperature
update_temperature_from_heater_no_floor(s) ==
    LET target == target_temperature(s.holding_registers[HEATER_ADDR])
        delayed_lower_temp == Head(s.lower_temp_history)
        heating == delayed_lower_temp < target
    IN  [s EXCEPT
            !.upper_temp_history = Append(Tail(@), s.temperature_upper),
            !.lower_temp_history = Append(Tail(@), s.temperature_lower),
            !.temperature_lower =
                IF heating THEN @ + HEATING_RATE
                ELSE @ - COOLING_RATE,
            !.temperature_upper =
                IF heating THEN @ + HEATING_RATE
                ELSE @ - COOLING_RATE]

\* variant of update_temperature_from_heater that heats the lower sensor alone
update_temperature_from_heater_lower_only(s) ==
    LET target == target_temperature(s.holding_registers[HEATER_ADDR])
        delayed_lower_temp == Head(s.lower_temp_history)
        heating == delayed_lower_temp < target
    IN  [s EXCEPT
            !.upper_temp_history = Append(Tail(@), s.temperature_upper),
            !.lower_temp_history = Append(Tail(@), s.temperature_lower),
            !.temperature_lower =
                IF heating THEN @ + HEATING_RATE
                ELSE Max(@ - COOLING_RATE, AMBIENT_TEMP * TEMP_UNIT),
            !.temperature_upper =
                IF heating THEN @
                ELSE Max(@ - COOLING_RATE, AMBIENT_TEMP * TEMP_UNIT)]

update_temperature_from_heater(s) ==
    LET target == target_temperature(s.holding_registers[HEATER_ADDR])
        delayed_lower_temp == Head(s.lower_temp_history)
        heating == delayed_lower_temp < target
    IN  [s EXCEPT
            !.upper_temp_history = Append(Tail(@), s.temperature_upper),
            !.lower_temp_history = Append(Tail(@), s.temperature_lower),
            !.temperature_lower =
                IF heating THEN @ + HEATING_RATE
                ELSE Max(@ - COOLING_RATE, AMBIENT_TEMP * TEMP_UNIT),
            !.temperature_upper =
                IF heating THEN @ + HEATING_RATE
                ELSE Max(@ - COOLING_RATE, AMBIENT_TEMP * TEMP_UNIT)]

\* Interpolated conversion rate at current_temp (tenths), in 1/VOL litre
conversion_rate(current_temp) ==
    IF current_temp < MIN_REACTION_TEMP * TEMP_UNIT THEN 0
    ELSE (BASE_CONVERSION_RATE * VOL) \div 10
         + (current_temp - MIN_REACTION_TEMP * TEMP_UNIT)
           * (MAX_CONVERSION_RATE * 10 - BASE_CONVERSION_RATE)
           * (VOL \div ((MAX_REACTION_TEMP - MIN_REACTION_TEMP) * TEMP_UNIT * 10))

\* variant of chemicals_fault whose third check ignores the relief valve
chemicals_fault_any_relief(s) ==
    \/ s.powder_mix_tank_level + s.liquid_mix_tank_level + s.processed_mix_tank_level
          > MAX_TANK_VOLUME * VOL
    \/ /\ s.processed_mix_tank_level <= PRODUCT_MIX_ERROR_LEVEL * VOL
       /\ s.outlet_valve_position # 0
    \/ /\ s.powder_inlet_flow # 0
       /\ s.temperature_upper > POWDER_IGNITION_TEMPERATURE * TEMP_UNIT

\* variant of chemicals_fault that takes the volumes from the registers
chemicals_fault_from_registers(s) ==
    \/ s.holding_registers[POWDER_MIXING_VOLUME_ADDR]
          + s.holding_registers[LIQUID_MIXING_VOLUME_ADDR]
          + s.holding_registers[PROCESSED_PRODUCT_LEVEL_ADDR] > MAX_TANK_VOLUME
    \/ /\ s.processed_mix_tank_level <= PRODUCT_MIX_ERROR_LEVEL * VOL
       /\ s.outlet_valve_position # 0
    \/ /\ s.coils[SAFETY_RELIEF_VALVE_ADDR] = 1
       /\ s.powder_inlet_flow # 0
       /\ s.temperature_upper > POWDER_IGNITION_TEMPERATURE * TEMP_UNIT

\* The three fault checks at the end of process_chemicals
chemicals_fault(s) ==
    \/ s.powder_mix_tank_level + s.liquid_mix_tank_level + s.processed_mix_tank_level
          > MAX_TANK_VOLUME * VOL
    \/ /\ s.processed_mix_tank_level <= PRODUCT_MIX_ERROR_LEVEL * VOL
       /\ s.outlet_valve_position # 0
    \/ /\ s.coils[SAFETY_RELIEF_VALVE_ADDR] = 1
       /\ s.powder_inlet_flow # 0
       /\ s.temperature_upper > POWDER_IGNITION_TEMPERATURE * TEMP_UNIT

\* variant of react whose product gains the converted powder alone
react_powder_only(s, draw) ==
    LET current_temp == s.temperature_lower
        rate == conversion_rate(current_temp)
        reacting == s.coils[MIXER_ADDR] = 1
                    /\ current_temp >= MIN_REACTION_TEMP * TEMP_UNIT
        is_enhanced_reaction ==
            current_temp > ENHANCED_REACTION_TEMP_THRESHOLD * TEMP_UNIT /\ draw
        reaction_multiplier ==
            IF is_enhanced_reaction THEN ENHANCED_REACTION_MULTIPLIER ELSE 1
        processed_powder == Min(s.powder_mix_tank_level, rate * reaction_multiplier)
        processed_liquid == Min(s.liquid_mix_tank_level, rate * reaction_multiplier)
        temperature_increase ==
            IF is_enhanced_reaction
            THEN REACTION_TEMPERATURE_INCREASE + EXTRA_HEAT_FROM_ENHANCED_REACTION
            ELSE REACTION_TEMPERATURE_INCREASE
    IN  IF reacting
        THEN [s EXCEPT
                !.powder_mix_tank_level = Max(@ - processed_powder, 0),
                !.liquid_mix_tank_level = Max(@ - processed_liquid, 0),
                !.processed_mix_tank_level = @ + processed_powder,
                !.temperature_lower = @ + temperature_increase,
                !.temperature_upper = @ + temperature_increase]
        ELSE s

\* the reaction of process_chemicals; draw = (random.random() < 0.25)
react(s, draw) ==
    LET current_temp == s.temperature_lower
        rate == conversion_rate(current_temp)
        reacting == s.coils[MIXER_ADDR] = 1
                    /\ current_temp >= MIN_REACTION_TEMP * TEMP_UNIT
        is_enhanced_reaction ==
            current_temp > ENHANCED_REACTION_TEMP_THRESHOLD * TEMP_UNIT /\ draw
        reaction_multiplier ==
            IF is_enhanced_reaction THEN ENHANCED_REACTION_MULTIPLIER ELSE 1
        processed_powder == Min(s.powder_mix_tank_level, rate * reaction_multiplier)
        processed_liquid == Min(s.liquid_mix_tank_level, rate * reaction_multiplier)
        temperature_increase ==
            IF is_enhanced_reaction
            THEN REACTION_TEMPERATURE_INCREASE + EXTRA_HEAT_FROM_ENHANCED_REACTION
            ELSE REACTION_TEMPERATURE_INCREASE
    IN  IF reacting
        THEN [s EXCEPT
                !.powder_mix_tank_level = Max(@ - processed_powder, 0),
                !.liquid_mix_tank_level = Max(@ - processed_liquid, 0),
                !.processed_mix_tank_level = @ + processed_powder + processed_liquid,
                !.temperature_lower = @ + temperature_increase,
                !.temperature_upper = @ + temperature_increase]
        ELSE s

\* variant of process_chemicals whose flag follows the fault conditions of the pass
process_chemicals_unlatched(s, draw) ==
    LET s1 == react(s, draw)
    IN  [s1 EXCEPT !.process_error = chemicals_fault(s1)]

process_chemicals(s, draw) ==
    LET s1 == react(s, draw)
    IN  IF chemicals_fault(s1) THEN [s1 EXCEPT !.process_error = TRUE] ELSE s1

update_outlet_flow(s) ==
    LET position == on_off_valve(s.coils[OUTLET_VALVE_ADDR], s.outlet_valve_position)
        effective_outlet_flow == (position * MAX_OUTLET_FLOW * VOL) \div VALVE_MAX
        flow == IF position > 0
                THEN Min(s.processed_mix_tank_level, effective_outlet_flow)
                ELSE 0
        history == Append(s.product_outlet_flow_history, flow)
    IN  [s EXCEPT
            !.outlet_valve_position = position,
            !.product_outlet_flow = flow,
            !.product_outlet_flow_history =
                IF Len(history) > FLOW_HISTORY_LEN THEN Tail(history) ELSE history,
            !.processed_mix_tank_level = Max(@ - flow, 0)]

\* (sum(history) / len(history)) * 60, in 1/VOL litre
get_average_outlet_flow_per_minute(s) ==
    IF s.product_outlet_flow_history # <<>>
    THEN (SumSeq(s.product_outlet_flow_history) * 60)
            \div Len(s.product_outlet_flow_history)
    ELSE 0

\* variant of update_tank_pressure without the floor at the base pressure
update_tank_pressure_no_floor(s) ==
    LET current_volume == s.powder_mix_tank_level + s.liquid_mix_tank_level
                          + s.processed_mix_tank_level
        over_half == 2 * current_volume > MAX_TANK_VOLUME * VOL
        litres == current_volume \div VOL
        pressure_change_rate ==
            IF s.temperature_upper > 50 * TEMP_UNIT
            THEN IF s.temperature_upper < 80 * TEMP_UNIT THEN PRESSURE_INCREASE_LOW
                 ELSE IF s.temperature_upper < 120 * TEMP_UNIT
                      THEN PRESSURE_INCREASE_MEDIUM
                      ELSE PRESSURE_INCREASE_HIGH
            ELSE 0
        \* 1 + (fill_percentage / 50) ** 2 = 1 + (litres / 5000) ** 2, in thousandths
        pressure_scaling_factor ==
            PRESSURE_UNIT + (litres * litres) \div ((MAX_TANK_VOLUME \div 2) * 5)
        p1 == IF over_half
              THEN s.tank_pressure
                   + (pressure_change_rate * pressure_scaling_factor) \div 10
              ELSE s.tank_pressure - (PRESSURE_DECREASE * PRESSURE_UNIT) \div 10
        p2 == IF s.coils[SAFETY_RELIEF_VALVE_ADDR] = 1
              THEN p1 - RELEIF_PRESSURE_DECREASE * PRESSURE_UNIT
              ELSE p1
        p3 == p2
    IN  [s EXCEPT
            !.tank_pressure = p3,
            !.process_error = @ \/ p3 > PRESSURE_ERROR_LIMIT * PRESSURE_UNIT]

update_tank_pressure(s) ==
    LET current_volume == s.powder_mix_tank_level + s.liquid_mix_tank_level
                          + s.processed_mix_tank_level
        over_half == 2 * current_volume > MAX_TANK_VOLUME * VOL
        litres == current_volume \div VOL
        pressure_change_rate ==
            IF s.temperature_upper > 50 * TEMP_UNIT
            THEN IF s.temperature_upper < 80 * TEMP_UNIT THEN PRESSURE_INCREASE_LOW
                 ELSE IF s.temperature_upper < 120 * TEMP_UNIT
                      THEN PRESSURE_INCREASE_MEDIUM
                      ELSE PRESSURE_INCREASE_HIGH
            ELSE 0
        \* 1 + (fill_percentage / 50) ** 2 = 1 + (litres / 5000) ** 2, in thousandths
        pressure_scaling_factor ==
            PRESSURE_UNIT + (litres * litres) \div ((MAX_TANK_VOLUME \div 2) * 5)
        p1 == IF over_half
              THEN s.tank_pressure
                   + (pressure_change_rate * pressure_scaling_factor) \div 10
              ELSE s.tank_pressure - (PRESSURE_DECREASE * PRESSURE_UNIT) \div 10
        p2 == IF s.coils[SAFETY_RELIEF_VALVE_ADDR] = 1
              THEN p1 - RELEIF_PRESSURE_DECREASE * PRESSURE_UNIT
              ELSE p1
        p3 == Max(p2, BASE_PRESSURE * PRESSURE_UNIT)
    IN  [s EXCEPT
            !.tank_pressure = p3,
            !.process_error = @ \/ p3 > PRESSURE_ERROR_LIMIT * PRESSURE_UNIT]

\* variant of update_registers that puts the pressure into the heater register
update_registers_heater(s) ==
    [s EXCEPT !.holding_registers = [@ EXCEPT
        ![POWDER_TANK_LEVEL_ADDR] = PyInt(s.powder_tank_level, VOL),
        ![LIQUID_TANK_LEVEL_ADDR] = PyInt(s.liquid_tank_level, VOL),
        ![POWDER_MIXING_VOLUME_ADDR] = PyInt(s.powder_mix_tank_level, VOL),
        ![LIQUID_MIXING_VOLUME_ADDR] = PyInt(s.liquid_mix_tank_level, VOL),
        ![PROCESSED_PRODUCT_LEVEL_ADDR] = PyInt(s.processed_mix_tank_level, VOL),
        ![INTERMEDIATE_SLURRY_LEVEL_ADDR] =
            PyInt(s.powder_mix_tank_level + s.liquid_mix_tank_level, VOL),
        ![TANK_TEMP_UPPER_ADDR] = PyRound(s.temperature_upper, TEMP_UNIT),
        ![TANK_TEMP_LOWER_ADDR] = PyRound(s.temperature_lower, TEMP_UNIT),
        ![PROD_FLOW_ADDR] = PyInt(s.product_outlet_flow, VOL),
        ![PROD_FLOW_EST_MINUTE_ADDR] =
            PyRound(get_average_outlet_flow_per_minute(s), VOL),
        ![HEATER_ADDR] = PyRound(s.tank_pressure, PRESSURE_UNIT)]]

update_registers(s) ==
    [s EXCEPT !.holding_registers = [@ EXCEPT
        ![POWDER_TANK_LEVEL_ADDR] = PyInt(s.powder_tank_level, VOL),
        ![LIQUID_TANK_LEVEL_ADDR] = PyInt(s.liquid_tank_level, VOL),
        ![POWDER_MIXING_VOLUME_ADDR] = PyInt(s.powder_mix_tank_level, VOL),
        ![LIQUID_MIXING_VOLUME_ADDR] = PyInt(s.liquid_mix_tank_level, VOL),
        ![PROCESSED_PRODUCT_LEVEL_ADDR] = PyInt(s.processed_mix_tank_level, VOL),
        ![INTERMEDIATE_SLURRY_LEVEL_ADDR] =
            PyInt(s.powder_mix_tank_level + s.liquid_mix_tank_level, VOL),
        ![TANK_TEMP_UPPER_ADDR] = PyRound(s.temperature_upper, TEMP_UNIT),
        ![TANK_TEMP_LOWER_ADDR] = PyRound(s.temperature_lower, TEMP_UNIT),
        ![PROD_FLOW_ADDR] = PyInt(s.product_outlet_flow, VOL),
        ![PROD_FLOW_EST_MINUTE_ADDR] =
            PyRound(get_average_outlet_flow_per_minute(s), VOL),
        ![MIX_TANK_PRESSURE_ADDR] = PyRound(s.tank_pressure, PRESSURE_UNIT)]]

set_error_values(s) ==
    [s EXCEPT
        !.holding_registers =
            [a \in DOMAIN @ |-> IF a \in RegAddrs THEN ERROR_REG ELSE @[a]],
        !.coils =
            [a \in DOMAIN @ |->
                IF a \in POWDER_INLET_ADDR .. OUTLET_VALVE_ADDR THEN ERROR_COIL ELSE @[a]]]

-----------------------------------------------------------------------------
(* Bytes: struct.pack / struct.unpack, big-endian *)

Byte == 0..255
IsH(v) == v \in 0..65535
IsB(v) == v \in 0..255

\* struct.pack(">H", v)
PackH(v) == <<v \div 256, v % 256>>
\* struct.unpack(">H", b[i:i+2]), i counted from 1
UnpackH(b, i) == b[i] * 256 + b[i + 1]
\* b[i:] with i counted from 0, as Python slices
From(b, i) == IF i >= Len(b) THEN <<>> ELSE SubSeq(b, i + 1, Len(b))
\* b[:n]
UpTo(b, n) == IF n >= Len(b) THEN b ELSE SubSeq(b, 1, n)

\* the concatenation of pieces of one width
Concat(seqs, width) ==
    [k \in 1..(Len(seqs) * width) |-> seqs[((k - 1) \div width) + 1][((k - 1) % width) + 1]]

\* v | 0x80 and v << j for bytes
Or80(v) == IF v >= 128 THEN v ELSE v + 128
RECURSIVE Pow2(_)
Pow2(j) == IF j = 0 THEN 1 ELSE 2 * Pow2(j - 1)

-----------------------------------------------------------------------------
(* ModbusServer.handle_request: a result is the response and the new server, *)
(* or the exception the method raised                                        *)

Reply(s, response) == [raised |-> "none", response |-> response, srv |-> s]
Raise(s, exception) == [raised |-> exception, response |-> <<>>, srv |-> s]

\* struct.pack(">HHHBB", transaction_id, protocol_id, length, unit_id, function_code)
mbap(transaction_id, protocol_id, length, unit_id, function_code) ==
    PackH(transaction_id) \o PackH(protocol_id) \o PackH(length)
        \o <<unit_id, function_code>>

\* variant of request_header that takes the unit id one byte early
request_header_unit_at_5(request) ==
    [transaction_id |-> UnpackH(request, 1),
     protocol_id |-> UnpackH(request, 3),
     length |-> UnpackH(request, 5),
     unit_id |-> request[6],
     function_code |-> request[8],
     data |-> From(request, 8)]

\* the first unpacking of handle_request: header fields and function-specific data
request_header(request) ==
    [transaction_id |-> UnpackH(request, 1),
     protocol_id |-> UnpackH(request, 3),
     length |-> UnpackH(request, 5),
     unit_id |-> request[7],
     function_code |-> request[8],
     data |-> From(request, 8)]

\* variant of unpack_HH that reads the two words low byte first
unpack_HH_little_endian(data) ==
    <<data[2] * 256 + data[1], data[4] * 256 + data[3]>>

\* struct.unpack(">HH", data) of a 4-byte payload
unpack_HH(data) == <<UnpackH(data, 1), UnpackH(data, 3)>>

\* variant of pack_coil_data that fills each byte from the high bit down
pack_coil_data_msb_first(coils) ==
    LET coil_count == Len(coils)
        full == [i \in 1..(coil_count \div BYTE_SIZE) |->
                    SumSeq([j \in 1..BYTE_SIZE |->
                        coils[(i - 1) * BYTE_SIZE + j] * Pow2(BYTE_SIZE - j)])]
        rest == coil_count % BYTE_SIZE
        last == SumSeq([i \in 1..rest |->
                    coils[Len(coils) - rest + i] * Pow2(BYTE_SIZE - i)])
    IN  IF rest # 0 THEN Append(full, last) ELSE full

\* the packing loops: full bytes, then the remaining coil_count % 8 bits
pack_coil_data(coils) ==
    LET coil_count == Len(coils)
        full == [i \in 1..(coil_count \div BYTE_SIZE) |->
                    SumSeq([j \in 1..BYTE_SIZE |->
                        coils[(i - 1) * BYTE_SIZE + j] * Pow2(j - 1)])]
        rest == coil_count % BYTE_SIZE
        last == SumSeq([i \in 1..rest |->
                    coils[Len(coils) - rest + i] * Pow2(i - 1)])
    IN  IF rest # 0 THEN Append(full, last) ELSE full

handle_read_coils(s, h) ==
    IF Len(h.data) # 4 THEN Raise(s, "struct.error")
    ELSE
    LET coil_address == unpack_HH(h.data)[1]
        coil_count == unpack_HH(h.data)[2]
        byte_count == (coil_count + BYTE_ROUND_UP) \div BYTE_SIZE
        response_length == 3 + byte_count
        coils == [i \in 1..coil_count |->
                    IF Elem(s.coils, coil_address + i - 1) = 1 THEN 1 ELSE 0]
    IN  IF ~IsB(byte_count) THEN Raise(s, "struct.error")
        ELSE IF coil_address + coil_count > REGISTER_SIZE THEN Raise(s, "IndexError")
        ELSE Reply(s, mbap(h.transaction_id, h.protocol_id, response_length,
                           h.unit_id, h.function_code)
                      \o <<byte_count>> \o pack_coil_data(coils))

handle_read_holding_registers(s, h) ==
    IF Len(h.data) # 4 THEN Raise(s, "struct.error")
    ELSE
    LET starting_address == unpack_HH(h.data)[1]
        quantity == unpack_HH(h.data)[2]
        inside == Min(quantity, REGISTER_SIZE - starting_address)
        values == [i \in 1..inside |->
                      Elem(s.holding_registers, starting_address + i - 1)]
        byte_count == quantity * REGISTER_BYTE_SIZE
        response_length == RESPONSE_HEADER_SIZE + byte_count
    IN  IF \E i \in 1..inside : ~IsH(values[i]) THEN Raise(s, "struct.error")
        ELSE IF starting_address + quantity > REGISTER_SIZE THEN Raise(s, "IndexError")
        ELSE IF ~IsH(response_length) \/ ~IsB(byte_count) THEN Raise(s, "struct.error")
        ELSE Reply(s, mbap(h.transaction_id, h.protocol_id, response_length,
                           h.unit_id, h.function_code)
                      \o <<byte_count>>
                      \o Concat([i \in 1..quantity |-> PackH(values[i])], 2))

handle_write_single_coil(s, h) ==
    IF Len(h.data) # 4 THEN Raise(s, "struct.error")
    ELSE
    LET coil_address == unpack_HH(h.data)[1]
        coil_value == unpack_HH(h.data)[2]
        response_length == 6
    IN  Reply(SetCoil(s, coil_address, IF coil_value = COIL_ON THEN 1 ELSE 0),
              mbap(h.transaction_id, h.protocol_id, response_length,
                   h.unit_id, h.function_code)
                  \o PackH(coil_address) \o PackH(coil_value))

\* variant of handle_write_single_register that stores the low byte only
handle_write_single_register_low_byte(s, h) ==
    IF Len(h.data) # 4 THEN Raise(s, "struct.error")
    ELSE
    LET register_address == unpack_HH(h.data)[1]
        register_value == unpack_HH(h.data)[2]
        response_length == 6
    IN  Reply(SetReg(s, register_address, register_value % 256),
              mbap(h.transaction_id, h.protocol_id, response_length,
                   h.unit_id, h.function_code)
                  \o PackH(register_address) \o PackH(register_value))

handle_write_single_register(s, h) ==
    IF Len(h.data) # 4 THEN Raise(s, "struct.error")
    ELSE
    LET register_address == unpack_HH(h.data)[1]
        register_value == unpack_HH(h.data)[2]
        response_length == 6
    IN  Reply(SetReg(s, register_address, register_value),
              mbap(h.transaction_id, h.protocol_id, response_length,
                   h.unit_id, h.function_code)
                  \o PackH(register_address) \o PackH(register_value))

\* variant of handle_unsupported_function that answers "data address"
handle_unsupported_function_code_2(s, h) ==
    LET exception_function_code == Or80(h.function_code)
        exception_code == 2
    IN  Reply(s, mbap(h.transaction_id, h.protocol_id, 3, h.unit_id,
                      exception_function_code)
                     \o <<exception_code>>)

handle_unsupported_function(s, h) ==
    LET exception_function_code == Or80(h.function_code)
        exception_code == 1
    IN  Reply(s, mbap(h.transaction_id, h.protocol_id, 3, h.unit_id,
                      exception_function_code)
                     \o <<exception_code>>)

handle_request(s, request) ==
    IF Len(request) < 6 THEN Raise(s, "struct.error")
    ELSE IF Len(request) < 8 THEN Raise(s, "IndexError")
    ELSE
    LET h == request_header(request)
    IN  IF h.function_code = READ_COILS THEN handle_read_coils(s, h)
        ELSE IF h.function_code = READ_HOLDING_REGISTERS
        THEN handle_read_holding_registers(s, h)
        ELSE IF h.function_code = WRITE_SINGLE_COIL
        THEN handle_write_single_coil(s, h)
        ELSE IF h.function_code = WRITE_SINGLE_REGISTER
        THEN handle_write_single_register(s, h)
        ELSE handle_unsupported_function(s, h)

-----------------------------------------------------------------------------
(* ModbusTCPClient (Client/pymbtget.py) *)

\* struct.pack(">HHHBBHH", ...) of send_request; "unsent" when no frame is built
send_request(transaction_id, function_code, address, quantity_or_value, unit_id) ==
    LET protocol_id == 0
        length == MODBUS_REQUEST_LENGTH
        head == PackH(transaction_id) \o PackH(protocol_id) \o PackH(length)
                    \o <<unit_id, function_code>> \o PackH(address)
    IN  IF function_code \in {READ_COILS, READ_DISCRETE_INPUTS, READ_HOLDING_REGISTERS,
                              READ_INPUT_REGISTERS, WRITE_SINGLE_REGISTER}
        THEN head \o PackH(quantity_or_value)
        ELSE IF function_code = WRITE_SINGLE_COIL
        THEN head \o PackH(IF quantity_or_value = 1 THEN COIL_ON ELSE COIL_OFF)
        ELSE <<>>

\* format(b, '08b'): the eight bits of a byte, most significant first
Format08b(b) == [k \in 1..8 |-> (b \div Pow2(8 - k)) % 2]

\* the dictionary exception_codes and the default of exception_codes.get
exception_codes(exception_code) ==
    CASE exception_code = EXP_ILLEGAL_FUNCTION -> "illegal function"
      [] exception_code = 2 -> "data address"
      [] exception_code = 3 -> "data value"
      [] exception_code = 4 -> "slave device failure"
      [] exception_code = 5 -> "acknowledge"
      [] exception_code = 6 -> "slave device busy"
      [] exception_code = 8 -> "memory parity error"
      [] exception_code = 10 -> "gateway path unavailable"
      [] exception_code = 11 -> "gateway target device failed to respond"
      [] OTHER -> "unknown exception code"

Received(raised, transaction_id, protocol_id, length, unit_id, function_code, byte_count, response_data) ==
    [raised |-> raised, transaction_id |-> transaction_id, protocol_id |-> protocol_id,
     length |-> length, unit_id |-> unit_id, function_code |-> function_code,
     byte_count |-> byte_count, response_data |-> response_data]

\* the text of the ValueError raised for an exception response:
\* "Sent function code {sent}, received exception code {code}: {msg}"
ExceptionText(sent, code) ==
    [sent |-> sent, code |-> code, msg |-> exception_codes(code)]

\* self.sock.recv(RESPONSE_HEADER_LENGTH) when the transport delivers at most k1
\* of the bytes of stream to this read
recv_header(stream, k1) == UpTo(stream, Min(RESPONSE_HEADER_LENGTH, k1))

\* self.sock.recv(length - 1) after a whole header, when the transport delivers
\* at most k2 of the bytes that follow to this read
recv_body(stream, k2) ==
    UpTo(From(stream, RESPONSE_HEADER_LENGTH), Min(UnpackH(stream, 5) - 1, k2))

\* the bytes of stream that receive_response leaves unread
unread(stream, k1, k2) ==
    IF Len(recv_header(stream, k1)) # RESPONSE_HEADER_LENGTH
    THEN From(stream, Len(recv_header(stream, k1)))
    ELSE IF UnpackH(stream, 5) - 1 < 0 THEN From(stream, RESPONSE_HEADER_LENGTH)
    ELSE From(stream, RESPONSE_HEADER_LENGTH + Len(recv_body(stream, k2)))

\* receive_response on the bytes the server sent on this connection, of which the
\* transport delivers at most k1 to the first read and at most k2 to the second.
\* A read that gets no byte ends in socket.timeout while bytes are on their way,
\* and returns b'' at the end of the stream.
\* A ValueError carries <<function_code - 0x80, exception_code>>.
receive_response_delivered(stream, k1, k2) ==
    LET response_header == recv_header(stream, k1)
        transaction_id == UnpackH(response_header, 1)
        protocol_id == UnpackH(response_header, 3)
        length == UnpackH(response_header, 5)
        unit_id == response_header[7]
        response_body == recv_body(stream, k2)
        function_code == response_body[1]
        fail(e) == Received(e, 0, 0, 0, 0, 0, 0, <<>>)
        ok(byte_count, response_data) ==
            Received("none", transaction_id, protocol_id, length, unit_id,
                     function_code, byte_count, response_data)
        words == (length - READ_HDR_SIZE) \div REG_SIZE
    IN  IF Len(response_header) = 0 /\ stream # <<>> THEN fail("socket.timeout")
        ELSE IF Len(response_header) # RESPONSE_HEADER_LENGTH THEN fail("struct.error")
        ELSE IF length - 1 < 0 THEN fail("ValueError")
        ELSE IF Len(response_body) = 0 /\ length - 1 > 0
                /\ Len(stream) > RESPONSE_HEADER_LENGTH
        THEN fail("socket.timeout")
        ELSE IF Len(response_body) = 0 THEN fail("IndexError")
        ELSE IF function_code >= EXCEPTION_FC_BASE
        THEN IF Len(response_body) < 2 THEN fail("IndexError")
             ELSE Received("ValueError", transaction_id, protocol_id, length, unit_id,
                           function_code, 0,
                           <<function_code - EXCEPTION_FC_BASE, response_body[2]>>)
        ELSE IF function_code \in {WRITE_SINGLE_REGISTER, WRITE_SINGLE_COIL}
        THEN IF Len(response_body) # 5 THEN fail("struct.error")
             ELSE ok(WRITE_SINGLE_BYTE_COUNT,
                     <<UnpackH(response_body, 2), UnpackH(response_body, 4)>>)
        ELSE IF function_code \in {READ_COILS, READ_DISCRETE_INPUTS}
        THEN IF Len(response_body) < 2 THEN fail("IndexError")
             ELSE ok(response_body[2],
                     [i \in 1..(Len(response_body) - 2) |->
                         Format08b(response_body[i + 2])])
        ELSE IF function_code \in {READ_INPUT_REGISTERS, READ_HOLDING_REGISTERS}
        THEN IF Len(response_body) - 1 # 1 + REG_SIZE * words
             THEN fail("struct.error")
             ELSE ok(response_body[2],
                     [i \in 1..words |-> UnpackH(response_body, 1 + 2 * i)])
        ELSE fail("ValueError")

\* receive_response when the transport delivers to each read all it asks for
receive_response(stream) ==
    receive_response_delivered(stream, RESPONSE_HEADER_LENGTH, Len(stream))

\* the list comprehension of parse_bit_response: every byte's bits, reversed
parse_bit_response(response) ==
    Concat([i \in 1..Len(response.response_data) |->
               [k \in 1..8 |-> response.response_data[i][9 - k]]], 8)

parse_word_response(response) == response.response_data

parse_write_bit_response(response, expected_value) ==
    LET value == response.response_data[2]
        expected_output_value == IF expected_value = 1 THEN COIL_ON ELSE COIL_OFF
    IN  value = expected_output_value

parse_write_word_response(response, expected_value) ==
    response.response_data[2] = expected_value

\* send_and_receive passes unit_id=1 to send_request whatever unit it was given
send_and_receive_unit(unit_id) == 1

-----------------------------------------------------------------------------
(* A call of the client and what it returns to its caller.                  *)
(* op is a method of ModbusTCPClientAPI (read_multiple_coils,               *)
(* read_multiple_holding_registers, write_coil, write_register), a method   *)
(* of ModbusTCPClient (read_discrete_inputs, read_input_registers), or      *)
(* "raw": a frame with function code `value` sent by another Modbus peer.   *)

Call(op, tid, unit, address, value) ==
    [op |-> op, tid |-> tid, unit |-> unit, address |-> address, value |-> value]

FunctionCodeOf(op) ==
    CASE op = "read_multiple_coils" -> READ_COILS
      [] op = "read_discrete_inputs" -> READ_DISCRETE_INPUTS
      [] op = "read_multiple_holding_registers" -> READ_HOLDING_REGISTERS
      [] op = "read_input_registers" -> READ_INPUT_REGISTERS
      [] op = "write_coil" -> WRITE_SINGLE_COIL
      [] op = "write_register" -> WRITE_SINGLE_REGISTER
      [] op = "resized_read_coils" -> READ_COILS
      [] op = "resized_read_holding_registers" -> READ_HOLDING_REGISTERS
      [] op = "resized_write_coil" -> WRITE_SINGLE_COIL
      [] op = "resized_write_register" -> WRITE_SINGLE_REGISTER

\* frames of other peers than this client: "raw" carries function code `value`,
\* "resized_..." is the request for one item (count 1, or value 1) at `address`
\* followed by two more bytes and cut to `value` bytes
PeerOps == {"raw", "resized_read_coils", "resized_read_holding_registers",
            "resized_write_coil", "resized_write_register"}

\* the request frame a call puts on the wire
RequestOf(call) ==
    IF call.op = "raw"
    THEN PackH(call.tid) \o PackH(0) \o PackH(MODBUS_REQUEST_LENGTH)
            \o <<call.unit, call.value>> \o PackH(call.address) \o PackH(1)
    ELSE IF call.op \in PeerOps
    THEN UpTo(PackH(call.tid) \o PackH(0) \o PackH(MODBUS_REQUEST_LENGTH)
                \o <<call.unit, FunctionCodeOf(call.op)>> \o PackH(call.address)
                \o PackH(IF call.op = "resized_write_coil" THEN COIL_ON ELSE 1)
                \o <<0, 0>>,
              call.value)
    ELSE send_request(call.tid, FunctionCodeOf(call.op), call.address, call.value,
                      send_and_receive_unit(call.unit))

\* what the caller gets: raised is "none" or the exception, value the returned list
\* (True/False as 1/0), text the message of the ValueError of an exception response
NoText == [sent |-> 0, code |-> 0, msg |-> ""]
Returned(raised, value) == [raised |-> raised, value |-> value, text |-> NoText]
RaisedText(text) == [raised |-> "ValueError", value |-> <<>>, text |-> text]

\* A response of another kind than the call's, left on the wire by an earlier
\* call, reaches the call's parser: response_data holds '08b' strings for function
\* codes 1 and 2 and integers otherwise.  parse_bit_response subscripts each
\* element (TypeError on an integer), the write parsers unpack two elements
\* (ValueError otherwise) and compare the second, a string never equal to an int.
ResultDelivered(call, stream, k1, k2) ==
    LET response == receive_response_delivered(stream, k1, k2)
        strings == response.function_code \in {READ_COILS, READ_DISCRETE_INPUTS}
    IN  IF response.raised = "ValueError" /\ response.response_data # <<>>
        THEN RaisedText(ExceptionText(response.response_data[1],
                                      response.response_data[2]))
        ELSE IF response.raised # "none" THEN Returned(response.raised, <<>>)
        ELSE IF call.op \in {"read_multiple_coils", "read_discrete_inputs"}
        THEN IF ~strings /\ response.response_data # <<>>
             THEN Returned("TypeError", <<>>)
             ELSE Returned("none",
                      IF call.op = "read_multiple_coils"
                      THEN UpTo(parse_bit_response(response), call.value)
                      ELSE parse_bit_response(response))
        ELSE IF call.op \in {"read_multiple_holding_registers", "read_input_registers"}
        THEN Returned("none", parse_word_response(response))
        ELSE IF call.op \in {"write_coil", "write_register"}
                /\ Len(response.response_data) # 2
        THEN Returned("ValueError", <<>>)
        ELSE IF call.op \in {"write_coil", "write_register"} /\ strings
        THEN Returned("none", <<0>>)
        ELSE IF call.op = "write_coil"
        THEN Returned("none",
                 <<IF parse_write_bit_response(response, call.value) THEN 1 ELSE 0>>)
        ELSE IF call.op = "write_register"
        THEN Returned("none",
                 <<IF parse_write_word_response(response, call.value) THEN 1 ELSE 0>>)
        ELSE Returned("none", <<>>)

\* the result when the transport delivers to each read all it asks for
ResultOf(call, stream) == ResultDelivered(call, stream, RESPONSE_HEADER_LENGTH, Len(stream))

-----------------------------------------------------------------------------
(* Bounds and the inputs the environment draws *)

MaxTicks == 5          \* loop passes of simulate_data in Spec
MaxCalls == 2          \* client calls in Spec
MaxAutoThreads == 1    \* auto_control threads started and not yet run
\* passes an on/off valve needs from one extreme to the other
TicksToExtreme == VALVE_MAX \div ON_OFF_VALVE_INCREMENT
\* `held` counts the passes a coil command has stayed the same, up to this
HELD_CAP == TicksToExtreme

\* random.randint(400, 600) and random.randint(797, 800): the extremes
PowderRefills == {400, 600}
LiquidRefills == {LIQUID_TANK_FILL_LIMIT - 3, LIQUID_TANK_FILL_LIMIT}

\* calls of an operator panel in Spec
SimCalls ==
    {Call("write_coil", 7, 1, a, v) :
        a \in {POWDER_INLET_ADDR, OUTLET_VALVE_ADDR, AUTO_CONTROL_ENABLE}, v \in {0, 1}}
    \cup {Call("write_register", 7, 1, PROPORTIONAL_POWDER_FEED_ADDR, 150),
          Call("read_multiple_holding_registers", 7, 1, POWDER_TANK_LEVEL_ADDR, 14)}

\* calls on the wire in SpecWire: writes to the ends and the middle of the address
\* space, reads of every packing shape and of the largest frames, unsupported codes
WireTid == {0, 4660, MAX_TRANSACTION_ID}
WireCoilAddrs == {0, POWDER_INLET_ADDR + 8, REGISTER_SIZE - 1}
WireRegAddrs == {0, REGISTER_SIZE - 1}
WireRegValues == {0, 258, 65535}
WireCoilReads ==
    {<<0, 1>>, <<REGISTER_SIZE - 1, 1>>, <<POWDER_INLET_ADDR + 8, 1>>,
     <<REGISTER_SIZE - 1, 0>>, <<REGISTER_SIZE - 1, 2>>,
     <<POWDER_INLET_ADDR, 7>>, <<POWDER_INLET_ADDR, 8>>, <<POWDER_INLET_ADDR, 9>>,
     <<POWDER_INLET_ADDR - 7, 16>>, <<POWDER_INLET_ADDR - 1, 17>>,
     <<0, 2040>>, <<0, 2041>>}
WireRegReads ==
    {<<0, 1>>, <<REGISTER_SIZE - 1, 1>>, <<PROPORTIONAL_POWDER_FEED_ADDR, 1>>,
     <<REGISTER_SIZE - 1, 0>>, <<REGISTER_SIZE - 1, 2>>,
     <<POWDER_TANK_LEVEL_ADDR, 14>>, <<REGISTER_SIZE - 125, 125>>,
     <<0, 127>>, <<0, 128>>}
\* a unit id other than the default of the client's methods
WireUnit == 17
\* lengths of the frames that are not a whole request: inside the header, at the
\* function code, inside the payload, and one and two bytes too long
WireSizes == {1, 5, 6, 7, 8, 11, 13, 14}
WireCodes == {0, READ_DISCRETE_INPUTS, READ_INPUT_REGISTERS, 15, 16, 43, 127, 128, 133, 255}

WireCalls ==
    {Call("write_coil", 4660, 1, a, v) : a \in WireCoilAddrs, v \in {0, 1}}
    \cup {Call("write_register", 4660, 1, a, v) : a \in WireRegAddrs, v \in WireRegValues}
    \cup {Call("read_multiple_coils", 4660, 1, r[1], r[2]) : r \in WireCoilReads}
    \cup {Call("read_multiple_holding_registers", 4660, 1, r[1], r[2]) : r \in WireRegReads}
    \cup {Call("read_discrete_inputs", 4660, 1, POWDER_INLET_ADDR, 3),
          Call("read_input_registers", 4660, 1, POWDER_TANK_LEVEL_ADDR, 2)}
    \cup {Call("raw", t, u, POWDER_INLET_ADDR, c) :
              t \in WireTid, u \in {0, 1, 255}, c \in WireCodes}
    \cup {Call(op, t, 1, LIQUID_INLET_ADDR, 1) :
              op \in {"write_coil", "write_register", "read_multiple_coils",
                      "read_multiple_holding_registers"},
              t \in WireTid}
    \cup {Call(op, 4660, WireUnit, LIQUID_INLET_ADDR, 1) :
              op \in {"write_coil", "write_register", "read_multiple_coils",
                      "read_multiple_holding_registers"}}
    \cup {Call("raw", MAX_TRANSACTION_ID, 255, LIQUID_INLET_ADDR, c) :
              c \in {READ_COILS, READ_HOLDING_REGISTERS, WRITE_SINGLE_COIL,
                      WRITE_SINGLE_REGISTER}}
    \cup {Call(op, 4660, 1, LIQUID_INLET_ADDR, n) :
              op \in PeerOps \ {"raw"}, n \in WireSizes}

-----------------------------------------------------------------------------
(* State *)

NoCall == Call("none", 0, 0, 0, 0)
NoConn == [st |-> "closed", call |-> NoCall, request |-> <<>>, raised |-> "none",
           response |-> <<>>, result |-> Returned("none", <<>>)]

Valves == {"powder_inlet", "liquid_inlet", "outlet_valve_position"}
ValveCoil(v) ==
    CASE v = "powder_inlet" -> POWDER_INLET_ADDR
      [] v = "liquid_inlet" -> LIQUID_INLET_ADDR
      [] v = "outlet_valve_position" -> OUTLET_VALVE_ADDR
      [] v = "relief_valve" -> SAFETY_RELIEF_VALVE_ADDR
\* the valves whose coil a pass reads: the on/off valves and the relief valve,
\* which has no position of its own
Commanded == Valves \cup {"relief_valve"}

Init ==
    /\ srv = start(InitServer)
    /\ autoThreads = 0
    /\ ticks = 0
    /\ calls = 0
    /\ listener = "accepting"
    /\ conn = NoConn
    /\ held = [v \in Commanded |-> [coil |-> 0, n |-> 0]]

-----------------------------------------------------------------------------
(* The simulation thread: one pass of the loop of simulate_data.  The      *)
(* auto_control thread it starts either runs at once (early), before the   *)
(* valve update, or is left pending and runs as AutoControlThread.         *)

\* Which of the three random draws a pass makes from state s
DrawsPowder(s) ==
    LET s1 == update_inlet_valve_positions(s)
    IN  s1.powder_tank_level - inlet_flow(s1.powder_inlet, s1.powder_inlet_prop)
            < POWDER_TANK_FILL_LIMIT * VOL
DrawsLiquid(s) ==
    LET s1 == update_inlet_valve_positions(s)
    IN  s1.liquid_tank_level - inlet_flow(s1.liquid_inlet, s1.liquid_inlet_prop)
            < LIQUID_TANK_FILL_LIMIT * VOL
DrawsEnhanced(s, refill_powder, refill_liquid) ==
    LET s3 == update_temperature_from_heater(
                  update_inlet_flows(update_inlet_valve_positions(s),
                                     refill_powder, refill_liquid))
    IN  /\ s3.coils[MIXER_ADDR] = 1
        /\ s3.temperature_lower > ENHANCED_REACTION_TEMP_THRESHOLD * TEMP_UNIT

\* the values each draw of a pass from state s can take; a draw the pass does not
\* make has one value, which the pass does not use
RefillsPowder(s) == IF DrawsPowder(s) THEN PowderRefills ELSE {400}
RefillsLiquid(s) == IF DrawsLiquid(s) THEN LiquidRefills ELSE {LIQUID_TANK_FILL_LIMIT}
Enhanced(s, refill_powder, refill_liquid) ==
    IF DrawsEnhanced(s, refill_powder, refill_liquid) THEN BOOLEAN ELSE {FALSE}

simulate_data(s, refill_powder, refill_liquid, draw) ==
    LET s1 == update_inlet_valve_positions(s)
        s2 == update_inlet_flows(s1, refill_powder, refill_liquid)
        s3 == update_temperature_from_heater(s2)
        s4 == process_chemicals(s3, draw)
        s5 == update_outlet_flow(s4)
        s6 == update_tank_pressure(s5)
        s7 == update_registers(s6)
    IN  IF s7.process_error THEN set_error_values(s7) ELSE s7

Observe(h, coil) ==
    IF h.n > 0 /\ h.coil = coil
    THEN [h EXCEPT !.n = Min(@ + 1, HELD_CAP)]
    ELSE [coil |-> coil, n |-> 1]

Tick(maxTicks) ==
    /\ ticks < maxTicks
    /\ \E early \in BOOLEAN :
          LET spawn == srv.coils[AUTO_CONTROL_ENABLE] = 1
              s0 == IF spawn /\ early THEN auto_control(srv) ELSE srv
          IN  /\ spawn \/ early
              /\ (spawn /\ ~early) => autoThreads < MaxAutoThreads
              /\ autoThreads' = IF spawn /\ ~early THEN autoThreads + 1 ELSE autoThreads
              /\ held' = [v \in Commanded |-> Observe(held[v], s0.coils[ValveCoil(v)])]
              /\ \E refill_powder \in RefillsPowder(s0), refill_liquid \in RefillsLiquid(s0) :
                    \E draw \in Enhanced(s0, refill_powder, refill_liquid) :
                        srv' = simulate_data(s0, refill_powder, refill_liquid, draw)
    /\ ticks' = ticks + 1
    /\ UNCHANGED <<calls, listener, conn>>

AutoControlThread ==
    /\ autoThreads > 0
    /\ srv' = auto_control(srv)
    /\ autoThreads' = autoThreads - 1
    /\ UNCHANGED <<ticks, calls, listener, conn, held>>

-----------------------------------------------------------------------------
(* One connection: the client connects and sends, listen() accepts, reads,  *)
(* dispatches, answers and closes, the client receives and parses.          *)

Exchange(call) ==
    /\ conn.st = "closed"
    /\ listener = "accepting"
    /\ LET request == RequestOf(call)
           handled == handle_request(srv, request)
       IN  /\ srv' = handled.srv
           /\ listener' = while_listening(handled.srv, handled.raised)
           /\ conn' = [st |-> "done", call |-> call, request |-> request,
                       raised |-> handled.raised, response |-> handled.response,
                       result |-> ResultOf(call, handled.response)]
    /\ UNCHANGED <<autoThreads, ticks, held>>

\* ModbusTCPClientAPI.close
Close ==
    /\ conn.st = "done"
    /\ conn' = NoConn
    /\ UNCHANGED <<srv, autoThreads, ticks, calls, listener, held>>

\* a call of the operator panel, counted against the bound
Request(from, maxCalls) ==
    /\ calls < maxCalls
    /\ calls' = calls + 1
    /\ \E call \in from : Exchange(call)

Next ==
    \/ Tick(MaxTicks)
    \/ AutoControlThread
    \/ Request(SimCalls, MaxCalls)
    \/ Close

Spec == Init /\ [][Next]_vars

\* the protocol alone: calls on the wire against the store, the simulation at rest
WireRequest ==
    /\ \E call \in WireCalls : Exchange(call)
    /\ UNCHANGED calls

NextWire ==
    \/ WireRequest
    \/ Close

SpecWire == Init /\ [][NextWire]_vars

-----------------------------------------------------------------------------
(* A long run: an operator opens both inlets with the proportional targets  *)
(* at 120 and 100 and leaves the mixer, the heater and the outlet off; when *)
(* the fault is raised he enables auto-control and reads the process        *)
(* registers.                                                               *)

MaxFillTicks == 552    \* loop passes of simulate_data in SpecFill

FillScript ==
    << Call("write_coil", 1, 1, POWDER_INLET_ADDR, 1),
       Call("write_coil", 2, 1, LIQUID_INLET_ADDR, 1),
       Call("write_register", 3, 1, PROPORTIONAL_POWDER_FEED_ADDR, 120),
       Call("write_register", 4, 1, PROPORTIONAL_LIQUID_FEED_ADDR, 100),
       Call("write_coil", 5, 1, AUTO_CONTROL_ENABLE, 1),
       Call("read_multiple_holding_registers", 6, 1, POWDER_TANK_LEVEL_ADDR, 14) >>

\* the calls made before the simulation starts: the writes that open the inlets
FillSetup ==
    {c \in 1..Len(FillScript) :
        FillScript[c].address \in {POWDER_INLET_ADDR, LIQUID_INLET_ADDR,
                                   PROPORTIONAL_POWDER_FEED_ADDR,
                                   PROPORTIONAL_LIQUID_FEED_ADDR}}

FillRequest ==
    /\ calls < Len(FillScript)
    /\ IF calls + 1 \in FillSetup THEN ticks = 0
       ELSE srv.process_error /\ ticks < MaxFillTicks
    /\ Request({FillScript[calls + 1]}, Len(FillScript))

FillTick ==
    /\ \A c \in FillSetup : calls >= c
    /\ Tick(MaxFillTicks)

NextFill ==
    \/ FillTick
    \/ AutoControlThread
    \/ FillRequest
    \/ Close

SpecFill == Init /\ [][NextFill]_vars

-----------------------------------------------------------------------------
(* A heating run: an operator opens the powder inlet, starts the mixer and   *)
(* sets the powder feed target and the heater to 100, each write within the  *)
(* first passes of the simulation, and writes nothing else.  The simulation  *)
(* thread loops for ever (while True ... time.sleep(1)), so a pass that can  *)
(* run does run.                                                             *)

MaxHeatTicks == 90     \* loop passes of simulate_data in SpecHeat
MaxSetupTicks == 2     \* passes that may have run when a write of the run is made

HeatScript ==
    << Call("write_coil", 1, 1, POWDER_INLET_ADDR, 1),
       Call("write_coil", 2, 1, MIXER_ADDR, 1),
       Call("write_register", 3, 1, PROPORTIONAL_POWDER_FEED_ADDR, 100),
       Call("write_register", 4, 1, HEATER_ADDR, 100) >>

HeatRequest ==
    /\ calls < Len(HeatScript)
    /\ ticks <= MaxSetupTicks
    /\ Request({HeatScript[calls + 1]}, Len(HeatScript))

HeatTick == Tick(MaxHeatTicks)

NextHeat ==
    \/ HeatTick
    \/ HeatRequest
    \/ Close

\* weak fairness of the pass, WF_vars(HeatTick), written out: a pass can run
\* exactly while the bound on the passes is not reached
HeatFairness == ([]<>(ticks >= MaxHeatTicks)) \/ ([]<><<HeatTick>>_vars)

SpecHeat == Init /\ [][NextHeat]_vars /\ HeatFairness

-----------------------------------------------------------------------------
(* One connection step by step: connect, send_request, one pass of the loop  *)
(* of listen, receive_response under the transport's deliveries, close.      *)
(* Exchange above is the run connect, send, pass of listen, receive in which *)
(* every read gets all it asks for.                                          *)

MaxSessions == 2       \* connections in SpecSession
MaxSends == 2          \* requests a client sends on one connection

SessionCalls ==
    {Call("write_coil", 1, 1, POWDER_INLET_ADDR, 1),
     Call("read_multiple_coils", 2, 1, POWDER_INLET_ADDR, 17),
     Call("read_multiple_holding_registers", 3, 1, POWDER_TANK_LEVEL_ADDR, 2),
     Call("read_input_registers", 4, 1, POWDER_TANK_LEVEL_ADDR, 1)}

\* a connection the server has accepted: sent and got count the client's
\* send_request and receive_response calls, pending holds the calls not yet
\* received for, inbox the bytes sent and not yet read by the server, wire the
\* bytes the server sent and the client has not read, reads and answers the
\* server's recv and sendall calls, peer the server's end of the connection
Accepted ==
    [st |-> "open", call |-> NoCall, request |-> <<>>, raised |-> "none",
     response |-> <<>>, result |-> Returned("none", <<>>),
     sent |-> 0, got |-> 0, pending |-> <<>>, inbox |-> <<>>, wire |-> <<>>,
     reads |-> 0, answers |-> 0, peer |-> "open"]

\* One pass of the loop of listen on the accepted connection c, closing it after
\* the second read
listen_twice(s, c) ==
    LET request == UpTo(c.inbox, MAX_REQUEST_SIZE)
        handled == IF Len(request) > 0 THEN handle_request(s, request)
                   ELSE Reply(s, <<>>)
        answered == Len(request) > 0 /\ handled.raised = "none"
        closes == c.reads >= 1 \/ handled.raised # "none"
    IN  [srv |-> handled.srv,
         raised |-> handled.raised,
         conn |-> [c EXCEPT !.inbox = IF closes THEN <<>> ELSE From(@, Len(request)),
                            !.reads = @ + 1,
                            !.answers = IF answered THEN @ + 1 ELSE @,
                            !.wire = IF answered THEN @ \o handled.response ELSE @,
                            !.response = IF answered THEN handled.response ELSE @,
                            !.raised = handled.raised,
                            !.peer = IF closes THEN "closed" ELSE "open",
                            !.st = IF @ = "shut" /\ closes THEN "done" ELSE @]]

\* One pass of the loop of listen on the accepted connection c: one recv of what
\* the client has sent so far, handle_request and sendall when that is not empty,
\* conn.close().  What the client sent and the server did not read is dropped
\* with the connection.  An exception out of handle_request ends listen, and the
\* connection closes with it.
listen(s, c) ==
    LET request == UpTo(c.inbox, MAX_REQUEST_SIZE)
        handled == IF Len(request) > 0 THEN handle_request(s, request)
                   ELSE Reply(s, <<>>)
        answered == Len(request) > 0 /\ handled.raised = "none"
    IN  [srv |-> handled.srv,
         raised |-> handled.raised,
         conn |-> [c EXCEPT !.inbox = <<>>,
                            !.reads = @ + 1,
                            !.answers = IF answered THEN @ + 1 ELSE @,
                            !.wire = IF answered THEN @ \o handled.response ELSE @,
                            !.response = IF answered THEN handled.response ELSE @,
                            !.raised = handled.raised,
                            !.peer = "closed",
                            !.st = IF @ = "shut" THEN "done" ELSE @]]

\* ModbusTCPClient.connect, and the accept of listen
Connect ==
    /\ conn.st = "closed"
    /\ listener = "accepting"
    /\ calls < MaxSessions
    /\ calls' = calls + 1
    /\ conn' = Accepted
    /\ UNCHANGED <<srv, autoThreads, ticks, listener, held>>

\* ModbusTCPClient.send_request on the open connection, once the call before it
\* has returned or raised; the bytes reach the server while its end is open
ClientSend ==
    /\ conn.st = "open"
    /\ conn.sent < MaxSends
    /\ conn.pending = <<>>
    /\ \E call \in SessionCalls :
          conn' = [conn EXCEPT !.sent = @ + 1,
                               !.pending = Append(@, call),
                               !.request = RequestOf(call),
                               !.inbox = IF conn.peer = "open"
                                         THEN @ \o RequestOf(call) ELSE @]
    /\ UNCHANGED <<srv, autoThreads, ticks, calls, listener, held>>

\* the pass of listen that serves the connection: recv returns once the client
\* has sent something or has closed
ServerServe ==
    /\ conn.st \in {"open", "shut"}
    /\ conn.peer = "open"
    /\ conn.inbox # <<>> \/ conn.st = "shut"
    /\ LET pass == listen(srv, conn)
       IN  /\ srv' = pass.srv
           /\ listener' = while_listening(pass.srv, pass.raised)
           /\ conn' = pass.conn
    /\ UNCHANGED <<autoThreads, ticks, calls, held>>

\* ModbusTCPClient.receive_response for the oldest call not yet received for:
\* it times out while the server has sent nothing and keeps its end open, and
\* otherwise reads what the transport delivers of the bytes on the wire
ClientReceive ==
    /\ conn.st = "open"
    /\ conn.pending # <<>>
    /\ \E k1 \in 0..RESPONSE_HEADER_LENGTH, k2 \in 0..Len(conn.wire) :
          /\ (conn.wire = <<>>) => (k1 = 0 /\ k2 = 0)
          /\ conn' = [conn EXCEPT
                        !.got = @ + 1,
                        !.call = Head(conn.pending),
                        !.pending = Tail(@),
                        !.wire = unread(@, k1, k2),
                        !.result =
                            IF conn.wire = <<>> /\ conn.peer = "open"
                            THEN Returned("socket.timeout", <<>>)
                            ELSE ResultDelivered(Head(conn.pending), conn.wire, k1, k2)]
    /\ UNCHANGED <<srv, autoThreads, ticks, calls, listener, held>>

\* ModbusTCPClient.close on the open connection
ClientClose ==
    /\ conn.st = "open"
    /\ conn' = [conn EXCEPT !.st = IF conn.peer = "open" THEN "shut" ELSE "done"]
    /\ UNCHANGED <<srv, autoThreads, ticks, calls, listener, held>>

NextSession ==
    \/ Connect
    \/ ClientSend
    \/ ServerServe
    \/ ClientReceive
    \/ ClientClose
    \/ Close

SpecSession == Init /\ [][NextSession]_vars

\* stop() called from another thread (Server/unit_tests.py calls it from the
\* test's thread) while listen runs
Stop ==
    /\ srv.listening
    /\ srv' = stop(srv)
    /\ UNCHANGED <<autoThreads, ticks, calls, listener, conn, held>>

NextStop ==
    \/ Connect
    \/ ClientSend
    \/ ServerServe
    \/ ClientReceive
    \/ ClientClose
    \/ Close
    \/ Stop

SpecStop == Init /\ [][NextStop]_vars

-----------------------------------------------------------------------------
(* Server/modbus_voltage_regulator.py: the voltage regulator.  Its listen   *)
(* and its handle_request are those of the chemical process but for Write   *)
(* Single Register; its store holds the registers and coils that are not 0. *)

MIN_SET_POINT == 225
MAX_SET_POINT == 235
SET_POINT_230V == 230
RANDOM_INPUT_V_LOWER == 210
RANDOM_INPUT_V_UPPER == 255
SET_POINT_ADDRESS == 2
MIN_SP_ADDRESS == 3
MAX_SP_ADDRESS == 4

\* ModbusServer.__init__ of the voltage regulator
RegulatorServer ==
    [ listening |-> FALSE,
      holding_registers |->
          [a \in {SET_POINT_ADDRESS, MIN_SP_ADDRESS, MAX_SP_ADDRESS} |->
              IF a = SET_POINT_ADDRESS THEN SET_POINT_230V
              ELSE IF a = MIN_SP_ADDRESS THEN MIN_SET_POINT
              ELSE MAX_SET_POINT],
      coils |-> [a \in {0} |-> 1],
      voltage_spike_alerted |-> FALSE ]

\* one pass of the loop of update_voltage_regulator, with its two random draws
update_voltage_regulator(s, input_v, variation) ==
    LET set_point == Elem(s.holding_registers, SET_POINT_ADDRESS)
        new_value == Max(0, set_point + variation)
        output == IF Elem(s.coils, 0) # 0 THEN new_value ELSE 0
    IN  [s EXCEPT !.holding_registers = Store(Store(@, 0, input_v, {}), 1, output, {}),
                  !.voltage_spike_alerted = @ \/ output > 300]

regulator_handle_write_single_coil(s, h) ==
    IF Len(h.data) # 4 THEN Raise(s, "struct.error")
    ELSE
    LET coil_address == unpack_HH(h.data)[1]
        coil_value == unpack_HH(h.data)[2]
        response_length == 6
    IN  Reply([s EXCEPT !.coils = Store(@, coil_address,
                                        IF coil_value = COIL_ON THEN 1 ELSE 0, {})],
              mbap(h.transaction_id, h.protocol_id, response_length,
                   h.unit_id, h.function_code)
                  \o PackH(coil_address) \o PackH(coil_value))

\* variant of regulator_handle_write_single_register that checks the limits
\* whatever EnableOverride is
regulator_handle_write_single_register_no_override(s, h) ==
    IF Len(h.data) # 4 THEN Raise(s, "struct.error")
    ELSE
    LET register_address == unpack_HH(h.data)[1]
        register_value == unpack_HH(h.data)[2]
        written == Store(s.holding_registers, register_address, register_value, {})
        set_point ==
            IF register_value > Elem(written, MAX_SP_ADDRESS)
            THEN Elem(written, MAX_SP_ADDRESS)
            ELSE IF register_value < Elem(written, MIN_SP_ADDRESS)
            THEN Elem(written, MIN_SP_ADDRESS)
            ELSE register_value
        response_length == 6
    IN  Reply([s EXCEPT !.holding_registers =
                            IF register_address = SET_POINT_ADDRESS
                            THEN Store(written, SET_POINT_ADDRESS, set_point, {})
                            ELSE written],
              mbap(h.transaction_id, h.protocol_id, response_length,
                   h.unit_id, h.function_code)
                  \o PackH(register_address) \o PackH(register_value))

\* the value is stored, then the set point is checked against the limits the
\* registers hold at that moment; the response carries the value of the request
regulator_handle_write_single_register(s, h) ==
    IF Len(h.data) # 4 THEN Raise(s, "struct.error")
    ELSE
    LET register_address == unpack_HH(h.data)[1]
        register_value == unpack_HH(h.data)[2]
        written == Store(s.holding_registers, register_address, register_value, {})
        override == Elem(s.coils, 1) # 0
        set_point ==
            IF register_value > Elem(written, MAX_SP_ADDRESS) /\ ~override
            THEN Elem(written, MAX_SP_ADDRESS)
            ELSE IF register_value < Elem(written, MIN_SP_ADDRESS) /\ ~override
            THEN Elem(written, MIN_SP_ADDRESS)
            ELSE register_value
        response_length == 6
    IN  Reply([s EXCEPT !.holding_registers =
                            IF register_address = SET_POINT_ADDRESS
                            THEN Store(written, SET_POINT_ADDRESS, set_point, {})
                            ELSE written],
              mbap(h.transaction_id, h.protocol_id, response_length,
                   h.unit_id, h.function_code)
                  \o PackH(register_address) \o PackH(register_value))

regulator_handle_request(s, request) ==
    IF Len(request) < 6 THEN Raise(s, "struct.error")
    ELSE IF Len(request) < 8 THEN Raise(s, "IndexError")
    ELSE
    LET h == request_header(request)
    IN  IF h.function_code = READ_COILS THEN handle_read_coils(s, h)
        ELSE IF h.function_code = READ_HOLDING_REGISTERS
        THEN handle_read_holding_registers(s, h)
        ELSE IF h.function_code = WRITE_SINGLE_COIL
        THEN regulator_handle_write_single_coil(s, h)
        ELSE IF h.function_code = WRITE_SINGLE_REGISTER
        THEN regulator_handle_write_single_register(s, h)
        ELSE handle_unsupported_function(s, h)

MaxRegulatorCalls == 2     \* client calls in SpecRegulator

\* the draws of random.randint(RANDOM_INPUT_V_LOWER, RANDOM_INPUT_V_UPPER) kept
RegulatorInputs == {RANDOM_INPUT_V_LOWER, RANDOM_INPUT_V_UPPER}

\* calls of a client of the regulator: set points below, inside, between and
\* above the limits, new limits, other registers, the two coils, reads
RegulatorCalls ==
    {Call("write_register", 9, 1, SET_POINT_ADDRESS, v) : v \in {80, 230, 237, 280}}
    \cup {Call("write_register", 9, 1, MIN_SP_ADDRESS, 240),
          Call("write_register", 9, 1, MAX_SP_ADDRESS, 220),
          Call("write_register", 9, 1, 0, 5),
          Call("write_register", 9, 1, REGISTER_SIZE - 1, 12)}
    \cup {Call("write_coil", 9, 1, 1, v) : v \in {0, 1}}
    \cup {Call("write_coil", 9, 1, 0, 0),
          Call("read_multiple_holding_registers", 9, 1, 0, 5),
          Call("read_multiple_coils", 9, 1, 0, 2)}

InitRegulator ==
    /\ srv = start(RegulatorServer)
    /\ autoThreads = 0
    /\ ticks = 0
    /\ calls = 0
    /\ listener = "accepting"
    /\ conn = NoConn
    /\ held = [v \in Commanded |-> [coil |-> 0, n |-> 0]]

\* the update thread
RegulatorUpdate ==
    /\ \E input_v \in RegulatorInputs, variation \in -1..1 :
          srv' = update_voltage_regulator(srv, input_v, variation)
    /\ UNCHANGED <<autoThreads, ticks, calls, listener, conn, held>>

\* one connection to the regulator: as Exchange, with the regulator's handle_request
RegulatorExchange ==
    /\ conn.st = "closed"
    /\ listener = "accepting"
    /\ calls < MaxRegulatorCalls
    /\ calls' = calls + 1
    /\ \E call \in RegulatorCalls :
          LET request == RequestOf(call)
              handled == regulator_handle_request(srv, request)
          IN  /\ srv' = handled.srv
              /\ listener' = while_listening(handled.srv, handled.raised)
              /\ conn' = [st |-> "done", call |-> call, request |-> request,
                          raised |-> handled.raised, response |-> handled.response,
                          result |-> ResultOf(call, handled.response)]
    /\ UNCHANGED <<autoThreads, ticks, held>>

NextRegulator ==
    \/ RegulatorUpdate
    \/ RegulatorExchange
    \/ Close

SpecRegulator == InitRegulator /\ [][NextRegulator]_vars

-----------------------------------------------------------------------------
(* Runs to a fault: an operator configures the plant before the first pass  *)
(* of the simulation and then lets it run.  The outlet is opened on an      *)
(* empty tank; both feeds are opened in full; the same with the heater at   *)
(* 100; powder is fed with the heater at 100 and the relief valve open;     *)
(* both feeds are opened in full with the heater at 22, which holds the     *)
(* tank around 50 degrees; the mixer runs on an empty tank with the heater  *)
(* at 25, a run that never faults.                                          *)

MaxFaultTicks == 552   \* loop passes of simulate_data in SpecFault

FaultConfigs ==
    { {Call("write_coil", 8, 1, OUTLET_VALVE_ADDR, 1)},
      {Call("write_coil", 8, 1, POWDER_INLET_ADDR, 1),
       Call("write_coil", 8, 1, LIQUID_INLET_ADDR, 1),
       Call("write_register", 8, 1, PROPORTIONAL_POWDER_FEED_ADDR, 100),
       Call("write_register", 8, 1, PROPORTIONAL_LIQUID_FEED_ADDR, 100)},
      {Call("write_coil", 8, 1, POWDER_INLET_ADDR, 1),
       Call("write_coil", 8, 1, LIQUID_INLET_ADDR, 1),
       Call("write_register", 8, 1, PROPORTIONAL_POWDER_FEED_ADDR, 100),
       Call("write_register", 8, 1, PROPORTIONAL_LIQUID_FEED_ADDR, 100),
       Call("write_register", 8, 1, HEATER_ADDR, 100)},
      {Call("write_coil", 8, 1, POWDER_INLET_ADDR, 1),
       Call("write_coil", 8, 1, SAFETY_RELIEF_VALVE_ADDR, 1),
       Call("write_register", 8, 1, PROPORTIONAL_POWDER_FEED_ADDR, 100),
       Call("write_register", 8, 1, HEATER_ADDR, 100)},
      {Call("write_coil", 8, 1, POWDER_INLET_ADDR, 1),
       Call("write_coil", 8, 1, LIQUID_INLET_ADDR, 1),
       Call("write_register", 8, 1, PROPORTIONAL_POWDER_FEED_ADDR, 100),
       Call("write_register", 8, 1, PROPORTIONAL_LIQUID_FEED_ADDR, 100),
       Call("write_register", 8, 1, HEATER_ADDR, 22)},
      {Call("write_coil", 8, 1, MIXER_ADDR, 1),
       Call("write_register", 8, 1, HEATER_ADDR, 25)} }

FaultCalls == UNION FaultConfigs

\* the store holds what the write put there
Applied(call) ==
    IF call.op = "write_coil"
    THEN Elem(srv.coils, call.address) = call.value
    ELSE Elem(srv.holding_registers, call.address) = call.value

\* the next write of a configuration
FaultRequest ==
    /\ ticks = 0
    /\ calls' = calls + 1
    /\ \E cfg \in FaultConfigs :
          /\ \A c \in FaultCalls : Applied(c) => c \in cfg
          /\ \E call \in cfg : ~Applied(call) /\ Exchange(call)

\* a pass of the simulation, the first one once a configuration is complete;
\* the run is followed up to the pass that sets the fault flag
FaultTick ==
    /\ ~srv.process_error
    /\ \/ ticks > 0
       \/ \E cfg \in FaultConfigs : \A c \in FaultCalls : Applied(c) <=> c \in cfg
    /\ Tick(MaxFaultTicks)

NextFault ==
    \/ FaultTick
    \/ FaultRequest
    \/ Close

SpecFault == Init /\ [][NextFault]_vars

-----------------------------------------------------------------------------
(* A read served while a pass runs.  simulate_data runs in its own thread   *)
(* and writes self.holding_registers one cell at a time, without a lock;    *)
(* handle_request reads the cells one at a time in the thread of listen.    *)
(* The interpreter can switch threads between any two of these accesses.    *)

MaxRaceTicks == 3   \* loop passes of simulate_data in SpecRace
MaxRaceCalls == 2   \* client calls in SpecRace

\* the pass of simulate_data up to its call of update_registers
physics(s, refill_powder, refill_liquid, draw) ==
    update_tank_pressure(update_outlet_flow(process_chemicals(
        update_temperature_from_heater(
            update_inlet_flows(update_inlet_valve_positions(s),
                               refill_powder, refill_liquid)),
        draw)))

\* the cells update_registers assigns, in the order of its statements
update_registers_order ==
    <<POWDER_TANK_LEVEL_ADDR, LIQUID_TANK_LEVEL_ADDR, POWDER_MIXING_VOLUME_ADDR,
      LIQUID_MIXING_VOLUME_ADDR, PROCESSED_PRODUCT_LEVEL_ADDR,
      INTERMEDIATE_SLURRY_LEVEL_ADDR, TANK_TEMP_UPPER_ADDR, TANK_TEMP_LOWER_ADDR,
      PROD_FLOW_ADDR, PROD_FLOW_EST_MINUTE_ADDR, MIX_TANK_PRESSURE_ADDR>>

\* the cells set_error_values assigns, in the order of its statements
set_error_values_order ==
    <<POWDER_TANK_LEVEL_ADDR, PROPORTIONAL_POWDER_FEED_ADDR, LIQUID_TANK_LEVEL_ADDR,
      PROPORTIONAL_LIQUID_FEED_ADDR, INTERMEDIATE_SLURRY_LEVEL_ADDR,
      PROCESSED_PRODUCT_LEVEL_ADDR, HEATER_ADDR, MIX_TANK_PRESSURE_ADDR,
      TANK_TEMP_LOWER_ADDR, TANK_TEMP_UPPER_ADDR, POWDER_MIXING_VOLUME_ADDR,
      LIQUID_MIXING_VOLUME_ADDR, PROD_FLOW_ADDR, PROD_FLOW_EST_MINUTE_ADDR>>

\* the register assignments of one pass, <<cell, value>> in program order; s is
\* the state the physics of the pass left
register_writes(s) ==
    [i \in 1..Len(update_registers_order) |->
        <<update_registers_order[i],
          update_registers(s).holding_registers[update_registers_order[i]]>>]
    \o (IF s.process_error
        THEN [i \in 1..Len(set_error_values_order) |->
                 <<set_error_values_order[i], ERROR_REG>>]
        ELSE <<>>)

\* self.holding_registers after the first k assignments of the pass
registers_after(registers, writes, k) ==
    [a \in DOMAIN registers |->
        IF \E i \in 1..k : writes[i][1] = a
        THEN writes[CHOOSE i \in 1..k :
                       /\ writes[i][1] = a
                       /\ \A j \in (i + 1)..k : writes[j][1] # a][2]
        ELSE registers[a]]

\* what the loop of the READ_HOLDING_REGISTERS branch sees when it reads the cells
\* below `cut` after t1 assignments of the pass and the others after t2
registers_seen(registers, writes, cut, t1, t2) ==
    [a \in DOMAIN registers |->
        IF a < cut
        THEN registers_after(registers, writes, t1)[a]
        ELSE registers_after(registers, writes, t2)[a]]

RaceCalls ==
    {Call("write_coil", 9, 1, OUTLET_VALVE_ADDR, 1),
     Call("write_register", 9, 1, HEATER_ADDR, 100),
     Call("read_multiple_holding_registers", 9, 1, POWDER_TANK_LEVEL_ADDR, 14)}

\* the connection of a request served on the store s0 while the pass that ends
\* its physics in state s6 writes its registers
Served(s0, s6, call, request) ==
    LET writes == register_writes(s6)
    IN  \E cut \in call.address .. call.address + call.value, t1 \in 0..Len(writes) :
           \E t2 \in t1..Len(writes) :
              LET seen == registers_seen(s0.holding_registers, writes, cut, t1, t2)
                  handled == handle_request([s0 EXCEPT !.holding_registers = seen],
                                            request)
              IN  /\ listener' = while_listening(srv', handled.raised)
                  /\ conn' = [st |-> "done", call |-> call, request |-> request,
                              raised |-> handled.raised,
                              response |-> handled.response,
                              result |-> ResultOf(call, handled.response)]

\* a pass of simulate_data and, in the thread of listen, one connection with a
\* Read Holding Registers request served while the pass runs
RacingRead ==
    /\ ticks < MaxRaceTicks
    /\ calls < MaxRaceCalls
    /\ conn.st = "closed"
    /\ listener = "accepting"
    /\ \E call \in RaceCalls, early \in BOOLEAN :
          LET spawn == srv.coils[AUTO_CONTROL_ENABLE] = 1
              s0 == IF spawn /\ early THEN auto_control(srv) ELSE srv
              request == RequestOf(call)
          IN  /\ call.op = "read_multiple_holding_registers"
              /\ spawn \/ early
              /\ (spawn /\ ~early) => autoThreads < MaxAutoThreads
              /\ autoThreads' = IF spawn /\ ~early THEN autoThreads + 1 ELSE autoThreads
              /\ held' = [v \in Commanded |-> Observe(held[v], s0.coils[ValveCoil(v)])]
              /\ \E refill_powder \in RefillsPowder(s0), refill_liquid \in RefillsLiquid(s0) :
                    \E draw \in Enhanced(s0, refill_powder, refill_liquid) :
                        /\ srv' = simulate_data(s0, refill_powder, refill_liquid, draw)
                        /\ Served(s0, physics(s0, refill_powder, refill_liquid, draw),
                                  call, request)
    /\ ticks' = ticks + 1
    /\ calls' = calls + 1

NextRace ==
    \/ Tick(MaxRaceTicks)
    \/ Request(RaceCalls, MaxRaceCalls)
    \/ RacingRead
    \/ Close

SpecRace == Init /\ [][NextRace]_vars

-----------------------------------------------------------------------------
(* Auto-control alone: a client sets coil 205 before the first pass and      *)
(* writes nothing else; the simulation runs under auto_control.              *)

MaxAutoTicks == 720   \* loop passes of simulate_data in SpecAuto

AutoCalls == {Call("write_coil", 10, 1, AUTO_CONTROL_ENABLE, 1)}

AutoRequest ==
    /\ ticks = 0
    /\ Request(AutoCalls, 1)

AutoTick == Tick(MaxAutoTicks)

NextAuto ==
    \/ AutoTick
    \/ AutoControlThread
    \/ AutoRequest
    \/ Close

SpecAuto == Init /\ [][NextAuto]_vars

-----------------------------------------------------------------------------
(* Hand-over at high pressure: an operator opens both feeds in full with the *)
(* heater at 50 before the first pass, and also writes to two registers the  *)
(* simulation reports in (20000 to register 240, 5 to register 238), watches *)
(* the pressure rise and, with register 237 above 195, switches auto-control *)
(* on.                                                                       *)

MaxReliefTicks == 432   \* loop passes of simulate_data in SpecRelief

ReliefSetup ==
    {Call("write_coil", 11, 1, POWDER_INLET_ADDR, 1),
     Call("write_coil", 11, 1, LIQUID_INLET_ADDR, 1),
     Call("write_register", 11, 1, PROPORTIONAL_POWDER_FEED_ADDR, 100),
     Call("write_register", 11, 1, PROPORTIONAL_LIQUID_FEED_ADDR, 100),
     Call("write_register", 11, 1, HEATER_ADDR, 50),
     Call("write_register", 11, 1, POWDER_MIXING_VOLUME_ADDR, 20000),
     Call("write_register", 11, 1, TANK_TEMP_LOWER_ADDR, 5)}

ReliefRequest ==
    /\ calls' = calls + 1
    /\ \/ /\ ticks = 0
          /\ \E call \in ReliefSetup : ~Applied(call) /\ Exchange(call)
       \/ /\ srv.holding_registers[MIX_TANK_PRESSURE_ADDR] > 195
          /\ ~srv.process_error
          /\ srv.coils[AUTO_CONTROL_ENABLE] = 0
          /\ Exchange(Call("write_coil", 11, 1, AUTO_CONTROL_ENABLE, 1))

ReliefTick ==
    /\ ticks > 0 \/ \A call \in ReliefSetup : Applied(call)
    /\ Tick(MaxReliefTicks)

NextRelief ==
    \/ ReliefTick
    \/ AutoControlThread
    \/ ReliefRequest
    \/ Close

SpecRelief == Init /\ [][NextRelief]_vars

-----------------------------------------------------------------------------
(* Hot runs: an operator sets the heater before the first pass and lets the  *)
(* simulation run.  In one run both feeds are open in full and the heater is *)
(* at 100; once register 238 reads above 160 the operator may start the      *)
(* mixer.  In the other the heater register holds 65535 and nothing else is  *)
(* touched.                                                                  *)

MaxHotTicks == 358           \* loop passes of the run with the heater at 100
MaxOverflowTicks == 163790   \* loop passes of the run with the heater at 65535

HotConfigs ==
    { {Call("write_coil", 12, 1, POWDER_INLET_ADDR, 1),
       Call("write_coil", 12, 1, LIQUID_INLET_ADDR, 1),
       Call("write_register", 12, 1, PROPORTIONAL_POWDER_FEED_ADDR, 100),
       Call("write_register", 12, 1, PROPORTIONAL_LIQUID_FEED_ADDR, 100),
       Call("write_register", 12, 1, HEATER_ADDR, 100)},
      {Call("write_register", 12, 1, HEATER_ADDR, 65535)} }

\* the next write of a configuration, or the start of the mixer
HotRequest ==
    /\ calls' = calls + 1
    /\ \/ /\ ticks = 0
          /\ \E cfg \in HotConfigs :
                /\ \A c \in UNION HotConfigs : Applied(c) => c \in cfg
                /\ \E call \in cfg : ~Applied(call) /\ Exchange(call)
       \/ /\ srv.holding_registers[HEATER_ADDR] = 100
          /\ srv.holding_registers[TANK_TEMP_LOWER_ADDR] > MAX_REACTION_TEMP
          /\ ~srv.process_error
          /\ srv.coils[MIXER_ADDR] = 0
          /\ Exchange(Call("write_coil", 12, 1, MIXER_ADDR, 1))

\* a pass of the simulation, the first one once a configuration is complete
HotTick ==
    /\ ~srv.process_error
    /\ \/ ticks > 0
       \/ \E cfg \in HotConfigs : \A c \in UNION HotConfigs : Applied(c) <=> c \in cfg
    /\ Tick(IF srv.holding_registers[HEATER_ADDR] = 100
            THEN MaxHotTicks ELSE MaxOverflowTicks)

NextHot ==
    \/ HotTick
    \/ HotRequest
    \/ Close

SpecHot == Init /\ [][NextHot]_vars

-----------------------------------------------------------------------------
(* Properties *)

TickStep == ticks' = ticks + 1
ThreadStep == autoThreads' < autoThreads
ExchangeStep == conn.st = "closed" /\ conn'.st = "done"
Done(op) == conn.st = "done" /\ conn.call.op = op

\* what reading one item at the address of the finished call returns from srv
ReadBack(op) ==
    LET read == Call(op, conn.call.tid, conn.call.unit, conn.call.address, 1)
    IN  ResultOf(read, handle_request(srv, RequestOf(read)).response)

\* C1: a Write Single Register(a, v) followed by Read Holding Registers(a, 1), with
\* no tick and no other write in between, returns exactly v, and a Write Single
\* Coil(a, bit) followed by Read Coils(a, 1) returns exactly the written bit, for
\* addresses at both ends of 0..65535 and values at both ends of 0..65535; a read
\* of one item returns what the store holds at that address.
C1_WriteReadRoundTrip ==
    /\ Done("write_register") =>
          ReadBack("read_multiple_holding_registers")
              = Returned("none", <<conn.call.value>>)
    /\ Done("write_coil") =>
          ReadBack("read_multiple_coils") = Returned("none", <<conn.call.value>>)
    /\ (Done("read_multiple_holding_registers") /\ conn.call.value = 1) =>
          conn.result
              = Returned("none", <<Elem(srv.holding_registers, conn.call.address)>>)
    /\ (Done("read_multiple_coils") /\ conn.call.value = 1) =>
          conn.result = Returned("none", <<Elem(srv.coils, conn.call.address)>>)

\* register 65535 was written with 65535 and a read of it returned 65535, and
\* coil 65535 is on
C1_Witness ==
    /\ Done("read_multiple_holding_registers")
    /\ conn.call.address = REGISTER_SIZE - 1
    /\ conn.call.value = 1
    /\ conn.result = Returned("none", <<65535>>)
    /\ Elem(srv.coils, REGISTER_SIZE - 1) = 1

Supported == {READ_COILS, READ_HOLDING_REGISTERS, WRITE_SINGLE_COIL, WRITE_SINGLE_REGISTER}

C2_ExceptionResponse ==
    (conn.st = "done" /\ Len(conn.request) >= 8 /\ conn.request[8] \notin Supported) =>
        /\ conn.raised = "none"
        /\ Len(conn.response) = 9
        /\ UnpackH(conn.response, 1) = conn.call.tid
        /\ UnpackH(conn.response, 5) = 3
        /\ conn.response[8] = (IF conn.request[8] >= 128 THEN conn.request[8]
                                ELSE conn.request[8] + 128)
        /\ conn.response[9] = 1
        /\ conn.result.raised = "ValueError"
        /\ conn.result.value = <<>>

C2_OnlyIllegalFunction ==
    (conn.st = "done" /\ Len(conn.response) >= 8 /\ conn.response[8] >= 128) =>
        /\ Len(conn.response) = 9
        /\ conn.response[9] = 1
        /\ conn.request[8] \notin Supported

C2_ClientRaises ==
    (Done("read_discrete_inputs") \/ Done("read_input_registers")) =>
        conn.result = RaisedText([sent |-> FunctionCodeOf(conn.call.op), code |-> 1,
                                  msg |-> "illegal function"])

\* C2: a request whose function code is not 1, 3, 5 or 6 is answered with function
\* code = request code OR 0x80, exception code 1 and length field 3, and changes no
\* coil and no register; every exception response of the server carries code 1; the
\* client raises ValueError "Sent function code N, received exception code 1:
\* illegal function" and returns no data.
C2_UnsupportedFunction ==
    /\ [](C2_ExceptionResponse /\ C2_OnlyIllegalFunction /\ C2_ClientRaises)
    /\ [][(ExchangeStep /\ Len(conn'.request) >= 8 /\ conn'.request[8] \notin Supported)
              => srv' = srv]_vars

\* read_input_registers raised the ValueError for function code 4 while register
\* 65535 holds a written value
C2_Witness ==
    /\ Done("read_input_registers")
    /\ conn.result.raised = "ValueError"
    /\ conn.result.text.sent = READ_INPUT_REGISTERS
    /\ Elem(srv.holding_registers, REGISTER_SIZE - 1) = 65535

\* C3: once process_error is set it stays set: no pass of the simulation, no
\* auto_control run and no client request clears it.
C3_FaultSticky == [][srv.process_error => srv'.process_error]_vars

\* the fault is set and a client has since written 0 to coil 200, which the faulted
\* pass had set to 1
C3_Witness ==
    /\ srv.process_error
    /\ Done("write_coil")
    /\ conn.call.address = POWDER_INLET_ADDR
    /\ conn.call.value = 0
    /\ srv.coils[POWDER_INLET_ADDR] = 0

ErrorRegisters(s) == \A a \in RegAddrs : s.holding_registers[a] = ERROR_REG
ErrorCoils(s) == \A a \in POWDER_INLET_ADDR .. OUTLET_VALVE_ADDR : s.coils[a] = ERROR_COIL

\* C4: when a pass of the simulation ends with the fault flag set, registers
\* 230..243 all hold 9999 and coils 200..204 all hold 1, and the auto_control
\* thread the pass started leaves them so.
C4_ErrorValuesAtEndOfTick ==
    [][ /\ (TickStep /\ srv'.process_error) =>
              (ErrorRegisters(srv') /\ ErrorCoils(srv'))
        /\ (ThreadStep /\ srv.process_error /\ ErrorRegisters(srv) /\ ErrorCoils(srv)) =>
              (ErrorRegisters(srv') /\ ErrorCoils(srv')) ]_vars

\* the mix-tank volume the fault check of the last pass saw: the outlet flow leaves
\* the tank after the check
VolumeAtCheck(s) ==
    s.powder_mix_tank_level + s.liquid_mix_tank_level + s.processed_mix_tank_level
        + s.product_outlet_flow

Overfull(s) == VolumeAtCheck(s) > MAX_TANK_VOLUME * VOL

\* C5: a pass whose fault check sees a mix-tank volume above 10000 sets the fault
\* flag, and a client that reads registers 230..243 after that pass gets 9999 for
\* every one of them.
C5_OverfullReadsErrorValues ==
    [][ /\ (TickStep /\ Overfull(srv')) => srv'.process_error
        /\ (ExchangeStep /\ Overfull(srv)
              /\ conn'.call = Call("read_multiple_holding_registers", 6, 1,
                                   POWDER_TANK_LEVEL_ADDR, 14)) =>
              conn'.result = Returned("none", [i \in 1..14 |-> ERROR_REG]) ]_vars

C6_Range == \A v \in Valves : srv[v] \in VALVE_MIN .. VALVE_MAX

C6_Reached ==
    \A v \in Valves :
        held[v].n >= TicksToExtreme =>
            srv[v] = (IF held[v].coil = 1 THEN VALVE_MAX ELSE VALVE_MIN)

C6_Step ==
    TickStep =>
        \A v \in Valves :
            srv'[v] = (IF held'[v].coil = 1
                       THEN Min(srv[v] + ON_OFF_VALVE_INCREMENT, VALVE_MAX)
                       ELSE Max(srv[v] - ON_OFF_VALVE_INCREMENT, VALVE_MIN))

C7_ProportionalValves ==
    /\ [](\A v \in {"powder_inlet_prop", "liquid_inlet_prop"} :
              srv[v] \in VALVE_MIN .. VALVE_MAX)
    /\ [][\A v \in {"powder_inlet_prop", "liquid_inlet_prop"} :
              srv'[v] - srv[v] \in -1 .. 1]_vars

\* C8: a Read Coils or Read Holding Registers request with a + n <= 65536 gets a
\* response whose length field is 3 + ceil(n/8) (coils) or 3 + 2n (registers), whose
\* byte count is the number of data bytes and whose length field is the number of
\* bytes that follow it.
C8_ReadResponseLengths ==
    ((Done("read_multiple_coils") \/ Done("read_multiple_holding_registers"))
        /\ conn.call.address + conn.call.value <= REGISTER_SIZE) =>
        /\ conn.raised = "none"
        /\ Len(conn.response) >= 9
        /\ UnpackH(conn.response, 5)
              = (IF conn.call.op = "read_multiple_coils"
                 THEN 3 + (conn.call.value + 7) \div 8
                 ELSE 3 + 2 * conn.call.value)
        /\ conn.response[9] = Len(conn.response) - 9
        /\ UnpackH(conn.response, 5) = Len(conn.response) - 6

\* C9: in the response to Read Coils(a, n), bit (i mod 8) of data byte (i div 8) is
\* coil a+i for every i < n, the padding bits of the last byte are 0, and
\* read_multiple_coils(a, n) returns those n coil values in address order.
C9_CoilPacking ==
    (Done("read_multiple_coils") /\ conn.raised = "none") =>
        LET a == conn.call.address
            n == conn.call.value
            data == From(conn.response, 9)
        IN  /\ Len(data) = (n + 7) \div 8
            /\ \A i \in 0 .. n - 1 :
                  (data[(i \div 8) + 1] \div Pow2(i % 8)) % 2 = Elem(srv.coils, a + i)
            /\ (n % 8 # 0) => data[Len(data)] < Pow2(n % 8)
            /\ conn.result
                  = Returned("none", [i \in 1..n |-> Elem(srv.coils, a + i - 1)])

\* read_multiple_coils(199, 17) returned 17 values with coils 201 and 208 on
C9_Witness ==
    /\ Done("read_multiple_coils")
    /\ conn.call.value = 17
    /\ Len(conn.result.value) = 17
    /\ conn.result.value[3] = 1
    /\ conn.result.value[10] = 1
    /\ conn.result.value[17] = 0

ApiOps == {"read_multiple_coils", "read_multiple_holding_registers", "write_coil",
           "write_register"}

\* C10: for function codes 1, 3, 5 and 6 the server decodes the frame of
\* send_request to the transaction id, function code, address and count or value
\* the client sent, and receive_response decodes the server's frame to the data the
\* server encoded: the register values, the coil bits, or the echoed address and
\* value.
C10_CodecRoundTrip ==
    (conn.st = "done" /\ conn.call.op \in ApiOps) =>
        LET call == conn.call
            h == request_header(conn.request)
            received == receive_response(conn.response)
        IN  /\ h.transaction_id = call.tid
            /\ h.function_code = FunctionCodeOf(call.op)
            /\ Len(h.data) = 4
            /\ unpack_HH(h.data)[1] = call.address
            /\ IF call.op = "write_coil"
               THEN (IF unpack_HH(h.data)[2] = COIL_ON THEN 1 ELSE 0) = call.value
               ELSE unpack_HH(h.data)[2] = call.value
            /\ conn.raised = "none" =>
                  /\ received.raised = "none"
                  /\ received.transaction_id = call.tid
                  /\ received.function_code = FunctionCodeOf(call.op)
                  /\ CASE call.op = "read_multiple_holding_registers" ->
                            received.response_data
                              = [i \in 1..call.value |->
                                    Elem(srv.holding_registers, call.address + i - 1)]
                       [] call.op = "read_multiple_coils" ->
                            /\ Len(received.response_data) = (call.value + 7) \div 8
                            /\ \A i \in 0 .. call.value - 1 :
                                  received.response_data[(i \div 8) + 1][8 - (i % 8)]
                                      = Elem(srv.coils, call.address + i)
                       [] call.op = "write_coil" ->
                            received.response_data
                              = <<call.address,
                                  IF call.value = 1 THEN COIL_ON ELSE COIL_OFF>>
                       [] call.op = "write_register" ->
                            received.response_data = <<call.address, call.value>>

\* 125 registers up to the last address were read with register 65535 holding 258
C10_Witness ==
    /\ Done("read_multiple_holding_registers")
    /\ conn.call.value = 125
    /\ conn.raised = "none"
    /\ conn.result.raised = "none"
    /\ conn.result.value[125] = 258

\* C11: every response the server emits (data, write echo or exception) carries the
\* transaction id and the unit id of the request it answers.
C11_ResponseMirrorsIds ==
    (conn.st = "done" /\ conn.response # <<>>) =>
        /\ Len(conn.response) >= 8
        /\ UnpackH(conn.response, 1) = UnpackH(conn.request, 1)
        /\ conn.response[7] = conn.request[7]
        /\ conn.call.op = "raw" =>
              /\ UnpackH(conn.response, 1) = conn.call.tid
              /\ conn.response[7] = conn.call.unit

\* a peer's Write Single Register with transaction id 65535 and unit id 255 was
\* answered with the echo
C11_Witness ==
    /\ Done("raw")
    /\ conn.call.value = WRITE_SINGLE_REGISTER
    /\ conn.call.unit = 255
    /\ Len(conn.response) = 12
    /\ UnpackH(conn.response, 1) = MAX_TRANSACTION_ID
    /\ conn.response[7] = 255
    /\ conn.response[8] = WRITE_SINGLE_REGISTER

\* C16: a non-empty request that is truncated or malformed (fewer than 8 bytes, or
\* a payload of function 1, 3, 5 or 6 that is not exactly 4 bytes) changes no coil
\* and no register, and the server goes on to accept later connections.
C16_MalformedRejected ==
    [][(ExchangeStep /\ conn'.call.op \in PeerOps \ {"raw"}) =>
          (srv' = srv /\ listener' = "accepting")]_vars

\* C18: the unit id byte of the request frame of read_coils, read_holding_registers,
\* write_coil and write_register is the unit id the caller supplied.
C18_UnitIdSent ==
    (conn.st = "done" /\ conn.call.op \in ApiOps) => conn.request[7] = conn.call.unit

\* the values the process registers 230..243 are constructed with
InitialRegisters == <<900, 0, 900, 0, 0, 0, 0, 101, 20, 20, 0, 0, 0, 0>>

\* what a client's read of n items at address a returns from the current state
ReadOf(op, a, n) ==
    LET read == Call(op, 7, 1, a, n)
    IN  ResultOf(read, handle_request(srv, RequestOf(read)).response)

ReadsInitial ==
    /\ ReadOf("read_multiple_coils", POWDER_INLET_ADDR, 6)
          = Returned("none", [i \in 1..6 |-> 0])
    /\ ReadOf("read_multiple_holding_registers", POWDER_TANK_LEVEL_ADDR, 14)
          = Returned("none", InitialRegisters)

\* the server object is as constructed, but for the outlet flows recorded, all 0
Untouched(s) ==
    /\ [s EXCEPT !.product_outlet_flow_history = <<>>] = start(InitServer)
    /\ \A i \in DOMAIN s.product_outlet_flow_history :
          s.product_outlet_flow_history[i] = 0

ReadStep ==
    /\ ExchangeStep
    /\ conn'.call.op \in {"read_multiple_coils", "read_multiple_holding_registers"}

\* C12: as constructed, coils 200..205 are 0 and registers 230..243 hold (900, 0,
\* 900, 0, 0, 0, 0, 101, 20, 20, 0, 0, 0, 0); a pass of the simulation and a read
\* leave the server as constructed, so that is what a read returns after any number
\* of passes as long as no client has written.
C12_InitialValues ==
    /\ [](calls = 0 => Untouched(srv))
    /\ [](Untouched(srv) => ReadsInitial)
    /\ [][(Untouched(srv) /\ (TickStep \/ ReadStep)) => Untouched(srv')]_vars

\* five passes have run, a client has read the registers and got the initial values
C12_Witness ==
    /\ ticks = 5
    /\ Len(srv.product_outlet_flow_history) = 5
    /\ Untouched(srv)
    /\ Done("read_multiple_holding_registers")
    /\ conn.result = Returned("none", InitialRegisters)

ClientOwned == {PROPORTIONAL_POWDER_FEED_ADDR, PROPORTIONAL_LIQUID_FEED_ADDR, HEATER_ADDR}

\* C13: a pass of the simulation that starts with coil 205 clear and ends with the
\* fault flag clear changes no coil and leaves registers 231, 233 and 236 as the
\* client set them.
C13_TickKeepsCommands ==
    [][(TickStep /\ srv.coils[AUTO_CONTROL_ENABLE] = 0 /\ ~srv'.process_error) =>
          /\ srv'.coils = srv.coils
          /\ \A a \in ClientOwned : srv'.holding_registers[a] = srv.holding_registers[a]
      ]_vars

\* passes have run with the powder inlet commanded open and its feed target
\* written, auto-control off and no fault
C13_Witness ==
    /\ ticks >= 2
    /\ srv.coils[AUTO_CONTROL_ENABLE] = 0
    /\ srv.coils[POWDER_INLET_ADDR] = 1
    /\ srv.holding_registers[PROPORTIONAL_POWDER_FEED_ADDR] = 150
    /\ srv.powder_inlet_prop >= 2
    /\ ~srv.process_error

HeatWritten == calls = Len(HeatScript)

\* the lower temperature and its register are at 50 or more, and there is finished
\* product in the tank and in its register
HeatGoal ==
    /\ srv.temperature_lower >= MIN_REACTION_TEMP * TEMP_UNIT
    /\ srv.holding_registers[TANK_TEMP_LOWER_ADDR] >= MIN_REACTION_TEMP
    /\ srv.processed_mix_tank_level > 0
    /\ srv.holding_registers[PROCESSED_PRODUCT_LEVEL_ADDR] > 0

\* C14: once a client has turned on coils 200 and 202 and written 100 to registers
\* 231 and 236, and writes nothing else, after finitely many passes the lower
\* temperature is at least 50 and the finished-product volume is greater than 0.
C14_HeatingStartsReaction == HeatWritten ~> HeatGoal

\* the four writes were made, the reaction runs and no fault was raised
C14_Witness ==
    /\ HeatWritten
    /\ HeatGoal
    /\ srv.coils[MIXER_ADDR] = 1
    /\ srv.holding_registers[HEATER_ADDR] = 100
    /\ ~srv.process_error


\* the pass of listen that serves the open connection
ServeStep == conn.st \in {"open", "shut"} /\ conn'.st # "closed" /\ conn'.reads > conn.reads
\* a call of receive_response that ends
ReceiveStep == conn.st = "open" /\ conn'.st = "open" /\ conn'.got > conn.got

\* C15: on every accepted connection the server reads once, answers at most once
\* (an empty read is not answered and changes nothing), and closes the connection
\* after that read whatever it read; the answer is the response to what that one
\* read returned.  A second request on the connection is never read nor answered:
\* the store keeps its value and the client's receive_response finds the stream
\* at its end and raises.
C15_OneRequestPerConnection ==
    /\ [](conn.st # "closed" =>
            /\ conn.reads <= 1
            /\ conn.answers <= conn.reads
            /\ (conn.reads = 1) = (conn.peer = "closed"))
    /\ [][ServeStep =>
            /\ conn'.peer = "closed"
            /\ conn'.inbox = <<>>
            /\ (conn.inbox = <<>>) =>
                  (srv' = srv /\ conn'.answers = conn.answers /\ conn'.wire = conn.wire)
            /\ (conn'.answers > conn.answers) =>
                  conn'.wire = conn.wire \o handle_request(srv, conn.inbox).response]_vars
    /\ [][(conn.st = "open" /\ conn.peer = "closed" /\ conn'.st = "open") =>
            /\ srv' = srv
            /\ conn'.answers = conn.answers
            /\ conn'.inbox = conn.inbox
            /\ (ReceiveStep /\ conn.wire = <<>>) =>
                  conn'.result.raised = "struct.error"]_vars

\* a second request was sent on a connection whose first was answered, its
\* receive_response raised, and this is the second connection served
C15_Witness ==
    /\ calls = 2
    /\ conn.st = "open"
    /\ conn.sent = 2 /\ conn.got = 2
    /\ conn.reads = 1 /\ conn.answers = 1
    /\ conn.result.raised = "struct.error"

\* C17: receive_response returns a decoded response only when it has read a whole
\* frame, the 7 header bytes and the length - 1 bytes after them; when a read
\* gets fewer bytes it raises.
C17_WholeFrameOrError ==
    [][(ReceiveStep /\ conn'.result.raised = "none") =>
          /\ Len(conn.wire) >= RESPONSE_HEADER_LENGTH
          /\ Len(conn.wire) - Len(conn'.wire)
                = RESPONSE_HEADER_LENGTH + UnpackH(conn.wire, 5) - 1]_vars


\* C19: whenever write_register(a, v) returns True, holding register a holds v
\* when the response is sent, and whenever write_coil(a, b) returns True, coil a
\* holds b; checked against the voltage regulator.
C19_TrueMeansStored ==
    [][(ExchangeStep /\ conn'.result = Returned("none", <<1>>)) =>
          /\ (conn'.call.op = "write_register") =>
                Elem(srv'.holding_registers, conn'.call.address) = conn'.call.value
          /\ (conn'.call.op = "write_coil") =>
                Elem(srv'.coils, conn'.call.address) = conn'.call.value]_vars

\* a Write Single Register served by the regulator
RegisterWritten == ExchangeStep /\ conn'.call.op = "write_register" /\ conn'.raised = "none"
\* the limits and the override at the time of the write
LowLimit == Elem(srv.holding_registers, MIN_SP_ADDRESS)
HighLimit == Elem(srv.holding_registers, MAX_SP_ADDRESS)
Override == Elem(srv.coils, 1) = 1
\* the write left every coil and every register but the written one as it was
OnlyWritten ==
    /\ srv'.coils = srv.coils
    /\ \A a \in (DOMAIN srv.holding_registers \cup DOMAIN srv'.holding_registers)
                    \ {conn'.call.address} :
          Elem(srv'.holding_registers, a) = Elem(srv.holding_registers, a)

C21_StopAfterOneMore ==
    /\ [](listener = "returned" => ~srv.listening)
    /\ [][(~srv.listening) => ~srv'.listening]_vars
    /\ [][(srv.listening /\ ~srv'.listening) => listener' = listener]_vars
    /\ [][(listener # listener') => ServeStep]_vars
    /\ [][(ServeStep /\ ~srv.listening) =>
            /\ listener' \in {"returned", "crashed"}
            /\ LET handled == handle_request(srv, conn.inbox)
               IN  (conn.inbox # <<>> /\ handled.raised = "none") =>
                      /\ listener' = "returned"
                      /\ srv' = handled.srv
                      /\ conn'.answers = conn.answers + 1
                      /\ conn'.wire = conn.wire \o handled.response]_vars
    /\ [][(conn.st = "closed" /\ conn'.st # "closed") => listener = "accepting"]_vars

\* stop() was called after the first connection, the second connection was
\* answered, its client got the result, and listen has returned
C21_Witness ==
    /\ listener = "returned"
    /\ calls = 2
    /\ conn.st = "open"
    /\ conn.answers = 1
    /\ conn.got = 1
    /\ conn.result = Returned("none", <<1>>)
    /\ srv.coils[POWDER_INLET_ADDR] = 1


\* the quantities the checks of the pass that has just run saw, from the state it
\* left: the outlet flow leaves the tank after the checks of process_chemicals and
\* the outlet valve moves after them
ProductAtCheck(s) == s.processed_mix_tank_level + s.product_outlet_flow
\* the four conditions of the claim, for a pass from state s to state n that
\* starts with auto-control off (no pass writes a coil before its checks)
TankOverfilled(s, n) == VolumeAtCheck(n) > MAX_TANK_VOLUME * VOL
OutletOnEmpty(s, n) ==
    ProductAtCheck(n) <= PRODUCT_MIX_ERROR_LEVEL * VOL /\ s.outlet_valve_position # 0
PowderIgnition(s, n) ==
    /\ s.coils[SAFETY_RELIEF_VALVE_ADDR] = 1
    /\ n.powder_inlet_flow # 0
    /\ n.temperature_upper > POWDER_IGNITION_TEMPERATURE * TEMP_UNIT
Overpressure(s, n) == n.tank_pressure > PRESSURE_ERROR_LIMIT * PRESSURE_UNIT

\* C22: a pass sets the fault flag if and only if, at its checks, the mix-tank
\* volume is above 10000, or the product is at most 20 with the outlet valve open,
\* or coil 203 is on while powder flows in and the upper temperature is above 130,
\* or the pressure is above 400; no request sets the flag.
C22_FaultConditions ==
    /\ [][(TickStep /\ ~srv.process_error) =>
            (srv'.process_error <=>
                \/ TankOverfilled(srv, srv')
                \/ OutletOnEmpty(srv, srv')
                \/ PowderIgnition(srv, srv')
                \/ Overpressure(srv, srv'))]_vars
    /\ [][(~TickStep) => (srv'.process_error = srv.process_error)]_vars

\* the pass that has just run set the flag on powder fed at an upper temperature
\* above 130 with the relief valve open, and on nothing else
C22_Witness ==
    /\ srv.process_error
    /\ srv.powder_inlet_flow # 0
    /\ srv.temperature_upper > POWDER_IGNITION_TEMPERATURE * TEMP_UNIT
    /\ srv.temperature_upper <= POWDER_IGNITION_TEMPERATURE * TEMP_UNIT + HEATING_RATE
    /\ srv.tank_pressure = BASE_PRESSURE * PRESSURE_UNIT
    /\ VolumeAtCheck(srv) < MAX_TANK_VOLUME * VOL
    /\ srv.outlet_valve_position = 0

\* the coils that command the valves and the mixer
CommandCoils ==
    {POWDER_INLET_ADDR, LIQUID_INLET_ADDR, MIXER_ADDR, SAFETY_RELIEF_VALVE_ADDR,
     OUTLET_VALVE_ADDR}

\* C23: the fault presentation changes only what is reported: a pass that starts
\* with auto-control off, the pass that raises the fault included, leaves the
\* valve and mixer coils, the two feed targets and the heater setting as the
\* clients wrote them.
C23_SentinelsOnlyReported ==
    [][(TickStep /\ srv.coils[AUTO_CONTROL_ENABLE] = 0) =>
          /\ \A a \in CommandCoils : srv'.coils[a] = srv.coils[a]
          /\ \A r \in ClientOwned :
                Elem(srv'.holding_registers, r) = Elem(srv.holding_registers, r)]_vars

\* a pass and a Read Holding Registers of 230..243 that ran at the same time
RaceStep == TickStep /\ ExchangeStep
\* the values a Read Holding Registers of 230..243 returns from the store
Snapshot(registers) == [i \in 1..14 |-> registers[POWDER_TANK_LEVEL_ADDR + i - 1]]

\* C24: once the fault flag is set, a Read Holding Registers of 230..243 returns
\* 9999 for every register, however the read interleaves with the pass.
C24_FaultReadsSentinel ==
    [][(ExchangeStep /\ srv.process_error
          /\ conn'.call = Call("read_multiple_holding_registers", 9, 1,
                               POWDER_TANK_LEVEL_ADDR, 14)) =>
          conn'.result = Returned("none", [i \in 1..14 |-> ERROR_REG])]_vars

\* C25: a Read Holding Registers of 230..243 served while a pass runs returns the
\* registers as one completed pass left them: as they were before the pass or as
\* they are after it (stated for the passes that end without a fault).
C25_ReadFromOneTick ==
    [][(RaceStep /\ ~srv'.process_error) =>
          \/ conn'.result = Returned("none", Snapshot(srv.holding_registers))
          \/ conn'.result = Returned("none", Snapshot(srv'.holding_registers))]_vars

\* C26: a pass that starts with coil 205 set runs on the store auto_control has
\* already written, every write of auto_control coming before the valve update
\* of that pass; with coil 205 clear nothing is written by auto_control.
C26_AutoControlFirst ==
    /\ [][(TickStep /\ srv.coils[AUTO_CONTROL_ENABLE] = 1) =>
            /\ autoThreads' = autoThreads
            /\ \E refill_powder \in PowderRefills, refill_liquid \in LiquidRefills,
                  draw \in BOOLEAN :
                  srv' = simulate_data(auto_control(srv), refill_powder,
                                       refill_liquid, draw)]_vars
    /\ [][(ThreadStep /\ srv.coils[AUTO_CONTROL_ENABLE] = 0) => srv' = srv]_vars

\* a step in which auto_control may have written: a pass, or the thread a pass left
AutoStep == TickStep \/ ThreadStep

\* the feed target at address a, over a step that starts with `level` in the mix
\* tank: it changes only to 50 below 1400 or to 0 above 1600, and auto_control
\* running on its own writes exactly that
FeedBand(a, level) ==
    LET old == srv.holding_registers[a]
        new == srv'.holding_registers[a]
    IN  /\ new # old => \/ new = 50 /\ level < 1400 * VOL
                        \/ new = 0 /\ level > 1600 * VOL
        /\ (ThreadStep /\ level < 1400 * VOL) => new = 50
        /\ (ThreadStep /\ level > 1600 * VOL) => new = 0

\* the outlet coil over a step: on only above 2000 of product, off only below 1700
OutletBand ==
    LET old == srv.coils[OUTLET_VALVE_ADDR]
        new == srv'.coils[OUTLET_VALVE_ADDR]
        level == srv.processed_mix_tank_level
    IN  /\ new # old => \/ new = 1 /\ level > 2000 * VOL
                        \/ new = 0 /\ level < 1700 * VOL
        /\ (ThreadStep /\ level > 2000 * VOL) => new = 1
        /\ (ThreadStep /\ level < 1700 * VOL) => new = 0

\* C27: under auto-control a feed target becomes 50 only with its mix volume below
\* 1400 and 0 only with it above 1600, the outlet coil goes on only with more than
\* 2000 of product and off only with less than 1700; in between they keep their
\* value.
C27_LevelBands ==
    [][(AutoStep /\ ~srv'.process_error) =>
          /\ FeedBand(PROPORTIONAL_POWDER_FEED_ADDR, srv.powder_mix_tank_level)
          /\ FeedBand(PROPORTIONAL_LIQUID_FEED_ADDR, srv.liquid_mix_tank_level)
          /\ OutletBand]_vars

\* auto-control has closed the feeds above 1600 and opened the outlet above 2000;
\* the mix volumes are back between the thresholds and the targets are still 0
C27_Witness ==
    /\ srv.coils[AUTO_CONTROL_ENABLE] = 1
    /\ srv.coils[OUTLET_VALVE_ADDR] = 1
    /\ srv.outlet_valve_position > 0
    /\ srv.holding_registers[PROPORTIONAL_POWDER_FEED_ADDR] = 0
    /\ srv.holding_registers[PROPORTIONAL_LIQUID_FEED_ADDR] = 0
    /\ srv.powder_mix_tank_level > 1400 * VOL
    /\ srv.powder_mix_tank_level < 1600 * VOL
    /\ ~srv.process_error

\* C29: from the initial state, with coil 205 set and nothing else written by a
\* client, no pass sets the fault flag and no register reports the sentinel.
C29_AutoOnlyNoFault ==
    /\ ~srv.process_error
    /\ \A a \in RegAddrs : srv.holding_registers[a] # ERROR_REG
    /\ \A a \in CommandCoils : srv.coils[AUTO_CONTROL_ENABLE] = 0 => srv.coils[a] = 0

\* the plant has run a whole cycle under auto-control: the outlet is fully open on
\* more than 1700 of product, heated by the heater auto-control set
C29_Witness ==
    /\ srv.coils[AUTO_CONTROL_ENABLE] = 1
    /\ srv.outlet_valve_position = VALVE_MAX
    /\ srv.processed_mix_tank_level > 1700 * VOL
    /\ srv.holding_registers[HEATER_ADDR] = 40
    /\ srv.product_outlet_flow > 0
    /\ ~srv.process_error

\* C28: under auto-control the relief coil follows a hysteresis band on the
\* pressure, so the command a pass reads from coil 203 never changes in two
\* passes in a row: when it changes, the previous command has been read by at
\* least two passes.
C28_ReliefHysteresis ==
    [][(/\ TickStep
        /\ srv.coils[AUTO_CONTROL_ENABLE] = 1
        /\ ~srv.process_error
        /\ held["relief_valve"].n > 0
        /\ held'["relief_valve"].coil # held["relief_valve"].coil)
          => held["relief_valve"].n >= 2]_vars

\* the smaller of the two valve positions of an inlet, as a share of the largest
\* flow, in 1/VOL litre
FlowThrough(on_off, prop) ==
    ((IF on_off < prop THEN on_off ELSE prop) * INLET_MAX_FLOW * VOL) \div 100
\* the mix tank and what left it, in 1/VOL litre
MixContent(s) ==
    s.powder_mix_tank_level + s.liquid_mix_tank_level + s.processed_mix_tank_level

\* C30: the flow through each inlet is min(on/off position, proportional
\* position) / 100 x 10, between 0 and 10, also with a proportional target above
\* 100; a pass takes exactly that amount from the source tank (which is then
\* refilled if low) and adds it to the mix volume (from which the reaction and the
\* outlet take their part).
C30_InletFlow ==
    /\ [](/\ srv.powder_inlet_flow = FlowThrough(srv.powder_inlet, srv.powder_inlet_prop)
          /\ srv.liquid_inlet_flow = FlowThrough(srv.liquid_inlet, srv.liquid_inlet_prop)
          /\ srv.powder_inlet_flow \in 0..(INLET_MAX_FLOW * VOL)
          /\ srv.liquid_inlet_flow \in 0..(INLET_MAX_FLOW * VOL))
    /\ [][TickStep =>
            LET pt == srv.powder_tank_level - srv'.powder_inlet_flow
                lt == srv.liquid_tank_level - srv'.liquid_inlet_flow
            IN  /\ IF pt < POWDER_TANK_FILL_LIMIT * VOL
                   THEN \E r \in 400..600 : srv'.powder_tank_level = pt + r * VOL
                   ELSE srv'.powder_tank_level = pt
                /\ IF lt < LIQUID_TANK_FILL_LIMIT * VOL
                   THEN \E r \in (LIQUID_TANK_FILL_LIMIT - 3)..LIQUID_TANK_FILL_LIMIT :
                            srv'.liquid_tank_level = r * VOL
                   ELSE srv'.liquid_tank_level = lt
                /\ MixContent(srv') + srv'.product_outlet_flow
                      = MixContent(srv) + srv'.powder_inlet_flow + srv'.liquid_inlet_flow
                /\ (srv.coils[MIXER_ADDR] = 0 /\ srv.coils[AUTO_CONTROL_ENABLE] = 0) =>
                      /\ srv'.powder_mix_tank_level
                            = srv.powder_mix_tank_level + srv'.powder_inlet_flow
                      /\ srv'.liquid_mix_tank_level
                            = srv.liquid_mix_tank_level + srv'.liquid_inlet_flow]_vars

\* the proportional powder valve stands at its target of 120, above the on/off
\* valve at 100, and the powder flows at 10 into the mix tank
C30_Witness ==
    /\ srv.holding_registers[PROPORTIONAL_POWDER_FEED_ADDR] = 120
    /\ srv.powder_inlet_prop = 120
    /\ srv.powder_inlet = VALVE_MAX
    /\ srv.powder_inlet_flow = INLET_MAX_FLOW * VOL
    /\ srv.powder_mix_tank_level > 1000 * VOL
    /\ srv.powder_tank_level < 900 * VOL

\* the pressure rises in a pass that ends in s: upper temperature above 50 and
\* the tank more than half full
PressureRises(s) ==
    /\ s.temperature_upper > 50 * TEMP_UNIT
    /\ 2 * MixContent(s) > MAX_TANK_VOLUME * VOL

\* C31: in every pass in which the pressure-rise condition does not hold (upper
\* temperature not above 50, or the tank not more than half full) the pressure
\* decays: it decreases by 0.2, and by a further 5 when the relief coil is on,
\* down to but never below 101.
C31_PressureDecays ==
    [][(TickStep /\ ~PressureRises(srv') /\ ~srv.process_error
           /\ srv.coils[AUTO_CONTROL_ENABLE] = 0)
          => srv'.tank_pressure
                = Max(srv.tank_pressure
                        - (PRESSURE_DECREASE * PRESSURE_UNIT) \div 10
                        - (IF srv.coils[SAFETY_RELIEF_VALVE_ADDR] = 1
                           THEN RELEIF_PRESSURE_DECREASE * PRESSURE_UNIT ELSE 0),
                      BASE_PRESSURE * PRESSURE_UNIT)]_vars

\* what a pass converts of the powder in the mix tank: what was there and what
\* flowed in, less what is left
ConvertedPowder ==
    srv.powder_mix_tank_level + srv'.powder_inlet_flow - srv'.powder_mix_tank_level
ConvertedLiquid ==
    srv.liquid_mix_tank_level + srv'.liquid_inlet_flow - srv'.liquid_mix_tank_level
\* what a pass adds to the finished product, the outlet flow put back
ProductGain ==
    srv'.processed_mix_tank_level + srv'.product_outlet_flow
       - srv.processed_mix_tank_level

\* C32: the reaction conserves volume: what a pass removes from the powder and
\* liquid mix volumes is what it adds to the finished product, and nothing is
\* moved while the mixer coil is off or the lower temperature is below 50.
C32_ReactionConservesVolume ==
    [][TickStep =>
          /\ ConvertedPowder >= 0
          /\ ConvertedLiquid >= 0
          /\ ProductGain = ConvertedPowder + ConvertedLiquid
          /\ (\/ srv'.coils[MIXER_ADDR] = 0
              \/ srv'.temperature_lower < MIN_REACTION_TEMP * TEMP_UNIT)
                => ConvertedPowder = 0 /\ ConvertedLiquid = 0 /\ ProductGain = 0]_vars

\* the mixer runs above 50 degrees on both components, product has been made
\* and the outlet draws from it
C32_Witness ==
    /\ srv.coils[MIXER_ADDR] = 1
    /\ srv.temperature_lower >= MIN_REACTION_TEMP * TEMP_UNIT
    /\ srv.powder_mix_tank_level > 0
    /\ srv.liquid_mix_tank_level > 0
    /\ srv.processed_mix_tank_level > 0
    /\ srv.product_outlet_flow > 0
    /\ ~srv.process_error

\* the target the heater register sets: 20 + 1.4 x heater, in tenths
HeaterTarget(s) ==
    AMBIENT_TEMP * TEMP_UNIT
       + (s.holding_registers[HEATER_ADDR] * (MAX_HEATER_TEMP - AMBIENT_TEMP) * TEMP_UNIT)
            \div 100
\* the lower temperature after the heater has acted on state s: 0.4 up when the
\* oldest sample of the history is below the target, else 0.2 down to 20 at least
HeaterStep(s) ==
    IF Head(s.lower_temp_history) < HeaterTarget(s)
    THEN s.temperature_lower + HEATING_RATE
    ELSE Max(s.temperature_lower - COOLING_RATE, AMBIENT_TEMP * TEMP_UNIT)
\* what a pass adds to the lower temperature beyond the heater's step
ReactionHeat == srv'.temperature_lower - HeaterStep(srv)

\* C33: the temperature rise the reaction causes in a pass is proportional to
\* the mass converted; in particular a pass that converts nothing, both mix
\* volumes being empty, adds no reaction heat.
C33_HeatFollowsMass ==
    [][(/\ TickStep
        /\ ~srv.process_error
        /\ srv.coils[AUTO_CONTROL_ENABLE] = 0
        /\ ConvertedPowder + ConvertedLiquid = 0)
          => ReactionHeat = 0]_vars

\* the largest conversion rate of the pass, in 1/VOL litre: the maximum rate,
\* doubled when the heat of the pass shows an enhanced reaction
RateLimit ==
    MAX_CONVERSION_RATE * VOL
       * (IF ReactionHeat > REACTION_TEMPERATURE_INCREASE
          THEN ENHANCED_REACTION_MULTIPLIER ELSE 1)

\* C34: with the heater register at most 100 the conversion rate applied to each
\* component in a pass lies between the base rate 0.2 and the maximum rate 10
\* (doubled for an enhanced reaction): a pass converts at most that much of a
\* component, and at least the base rate of a component it does not exhaust.
C34_RateWithinLimits ==
    [][(/\ TickStep
        /\ ~srv.process_error
        /\ srv.holding_registers[HEATER_ADDR] <= 100)
          => /\ ConvertedPowder <= RateLimit
             /\ ConvertedLiquid <= RateLimit
             /\ (ReactionHeat > 0 /\ srv'.powder_mix_tank_level > 0)
                   => ConvertedPowder >= (BASE_CONVERSION_RATE * VOL) \div 10
             /\ (ReactionHeat > 0 /\ srv'.liquid_mix_tank_level > 0)
                   => ConvertedLiquid >= (BASE_CONVERSION_RATE * VOL) \div 10]_vars

\* the registers the simulation stores its values in
OutputRegisters ==
    {POWDER_TANK_LEVEL_ADDR, LIQUID_TANK_LEVEL_ADDR, INTERMEDIATE_SLURRY_LEVEL_ADDR,
     PROCESSED_PRODUCT_LEVEL_ADDR} \cup (MIX_TANK_PRESSURE_ADDR..PROD_FLOW_EST_MINUTE_ADDR)

\* C37: every value the simulation stores into registers 230..243 is an integer
\* in 0..65535, whatever the client has written (heater and feed targets up to
\* 65535 included), so that a Read Holding Registers response can be encoded.
C37_RegistersEncodable ==
    \A a \in 230..243 : srv.holding_registers[a] \in 0..65535

\* the heat the reaction may add in a pass, in tenths
ReactionHeats ==
    {0, REACTION_TEMPERATURE_INCREASE,
     REACTION_TEMPERATURE_INCREASE + EXTRA_HEAT_FROM_ENHANCED_REACTION}

\* C35: the heater decides on the lower temperature sampled 10 passes earlier.
\* Each history always holds exactly 10 samples, a pass drops the oldest and adds
\* the temperature it starts with, and both temperatures rise by 0.4 in the pass
\* if and only if the oldest sample is below the target 20 + 1.4 x heater
\* register; otherwise they fall by 0.2, but not below 20.  The reaction of the
\* same pass adds its own heat, and none with the mixer off or below 50.
C35_DelayedHeaterDecision ==
    /\ [](Len(srv.lower_temp_history) = 10 /\ Len(srv.upper_temp_history) = 10)
    /\ [][(TickStep /\ ~srv.process_error /\ srv.coils[AUTO_CONTROL_ENABLE] = 0) =>
            LET target == 20 * TEMP_UNIT + 14 * srv.holding_registers[HEATER_ADDR]
                delayed == srv.lower_temp_history[1]
                after(temp) == IF delayed < target
                               THEN temp + 4
                               ELSE IF temp - 2 < 20 * TEMP_UNIT
                                    THEN 20 * TEMP_UNIT ELSE temp - 2
            IN  /\ srv'.lower_temp_history
                      = SubSeq(srv.lower_temp_history, 2, 10) \o <<srv.temperature_lower>>
                /\ srv'.upper_temp_history
                      = SubSeq(srv.upper_temp_history, 2, 10) \o <<srv.temperature_upper>>
                /\ \E heat \in ReactionHeats :
                      /\ srv'.temperature_lower = after(srv.temperature_lower) + heat
                      /\ srv'.temperature_upper = after(srv.temperature_upper) + heat
                      /\ (\/ srv.coils[MIXER_ADDR] = 0
                          \/ after(srv.temperature_lower) < 50 * TEMP_UNIT) => heat = 0]_vars

\* the heater is at 22 (target 50.8), the tank has been above the target and is
\* back below it, and the sample of 10 passes earlier is still above: the next
\* pass cools a tank that is below its target
C35_Witness ==
    /\ srv.holding_registers[HEATER_ADDR] = 22
    /\ ticks > 10
    /\ srv.temperature_lower < HeaterTarget(srv)
    /\ srv.lower_temp_history[1] >= HeaterTarget(srv)
    /\ srv.lower_temp_history[10] > srv.temperature_lower
    /\ ~srv.process_error

\* C36: at every pass boundary all tank quantities are non-negative (the powder
\* and liquid source levels, the powder and liquid mix volumes and the finished
\* product), and the refill keeps the powder source at 300 or more and the
\* liquid source at 797 or more.
C36_QuantitiesNonNegative ==
    /\ srv.powder_tank_level >= 0
    /\ srv.liquid_tank_level >= 0
    /\ srv.powder_mix_tank_level >= 0
    /\ srv.liquid_mix_tank_level >= 0
    /\ srv.processed_mix_tank_level >= 0
    /\ srv.powder_tank_level >= POWDER_TANK_FILL_LIMIT * VOL
    /\ srv.liquid_tank_level >= (LIQUID_TANK_FILL_LIMIT - 3) * VOL

\* both source tanks have been refilled, the liquid one with the smallest draw,
\* and the powder one has run down again towards its limit, while the reaction
\* and the outlet take from the mix tank
C36_Witness ==
    /\ ticks > 100
    /\ srv.liquid_tank_level = (LIQUID_TANK_FILL_LIMIT - 3) * VOL
    /\ srv.powder_tank_level < (POWDER_TANK_FILL_LIMIT + 100) * VOL
    /\ srv.processed_mix_tank_level > 0
    /\ srv.product_outlet_flow > 0

\* state s with the output registers cleared
Blank(s) ==
    [s EXCEPT !.holding_registers =
        [a \in DOMAIN @ |-> IF a \in OutputRegisters THEN 0 ELSE @[a]]]

\* C38: a write to an output register (230, 232, 234, 235, 237..243) never
\* changes the internal state of the simulation: the write changes that register
\* alone, every pass computes the same from a state whatever its output
\* registers hold (so the write neither trips a fault nor alters a later value),
\* and the pass puts the simulation's own value, or the sentinel after a fault,
\* back into every output register.
C38_OutputWritesInert ==
    /\ [][(/\ ExchangeStep
           /\ conn'.call.op = "write_register"
           /\ conn'.call.address \in OutputRegisters)
             => srv' = [srv EXCEPT
                          !.holding_registers[conn'.call.address] = conn'.call.value]]_vars
    /\ [](\A refill_powder \in PowderRefills, refill_liquid \in LiquidRefills,
             draw \in BOOLEAN :
               simulate_data(srv, refill_powder, refill_liquid, draw)
                  = simulate_data(Blank(srv), refill_powder, refill_liquid, draw))
    /\ [][TickStep =>
            \A a \in OutputRegisters :
               srv'.holding_registers[a]
                  = IF srv'.process_error THEN ERROR_REG
                    ELSE update_registers(srv').holding_registers[a]]_vars

\* a client wrote 20000 to register 240 and a pass has run since: the register
\* holds the powder mix volume again and no fault is set
C38_Witness ==
    /\ Done("write_register")
    /\ conn.call.address = POWDER_MIXING_VOLUME_ADDR
    /\ conn.call.value = 20000
    /\ ticks > 0
    /\ srv.holding_registers[POWDER_MIXING_VOLUME_ADDR] < 20000
    /\ srv.holding_registers[POWDER_MIXING_VOLUME_ADDR] * VOL <= srv.powder_mix_tank_level
    /\ srv.powder_mix_tank_level > 0
    /\ ~srv.process_error

\* C39: in every reachable state the tank pressure is at least 101 and both
\* temperatures are at least 20.
C39_PressureAndTemperatureFloors ==
    /\ srv.tank_pressure >= BASE_PRESSURE * PRESSURE_UNIT
    /\ srv.temperature_upper >= AMBIENT_TEMP * TEMP_UNIT
    /\ srv.temperature_lower >= AMBIENT_TEMP * TEMP_UNIT

\* passes have run with the relief valve open on a warm tank: the pressure is
\* held at 101
C39_Witness ==
    /\ ticks > 0
    /\ srv.coils[SAFETY_RELIEF_VALVE_ADDR] = 1
    /\ srv.tank_pressure = BASE_PRESSURE * PRESSURE_UNIT
    /\ srv.temperature_lower > 50 * TEMP_UNIT
    /\ ~srv.process_error

\* C40 as stated: the upper and lower temperatures are equal in every reachable
\* state, so registers 238 and 239 always hold the same value.
C40_TemperaturesEqual ==
    /\ srv.temperature_upper = srv.temperature_lower
    /\ srv.holding_registers[TANK_TEMP_LOWER_ADDR]
          = srv.holding_registers[TANK_TEMP_UPPER_ADDR]

\* C40, amended: the upper and lower temperatures are equal in every reachable
\* state, and every pass leaves the same value in registers 238 and 239; a
\* client's write to one of them stays until the next pass.
C40_TemperaturesEqualAfterPass ==
    /\ [](srv.temperature_upper = srv.temperature_lower)
    /\ [][TickStep =>
            srv'.holding_registers[TANK_TEMP_LOWER_ADDR]
               = srv'.holding_registers[TANK_TEMP_UPPER_ADDR]]_vars
    /\ [][(/\ ExchangeStep
           /\ conn'.call.op = "write_register"
           /\ conn'.call.address = TANK_TEMP_LOWER_ADDR)
             => /\ srv'.holding_registers[TANK_TEMP_LOWER_ADDR] = conn'.call.value
                /\ srv'.holding_registers[TANK_TEMP_UPPER_ADDR]
                      = srv.holding_registers[TANK_TEMP_UPPER_ADDR]]_vars

\* a client wrote 5 to register 238 and passes with the heater on have run
\* since: both registers hold the temperature, above 20
C40_Witness ==
    /\ Done("write_register")
    /\ conn.call.address = TANK_TEMP_LOWER_ADDR
    /\ srv.holding_registers[TANK_TEMP_LOWER_ADDR] > AMBIENT_TEMP
    /\ srv.holding_registers[TANK_TEMP_LOWER_ADDR]
          = srv.holding_registers[TANK_TEMP_UPPER_ADDR]
    /\ srv.temperature_upper = srv.temperature_lower
    /\ ~srv.process_error

=============================================================================
